---------------------------- MODULE Spec2Model ----------------------------
(***************************************************************************)
(* A model of the supply-chain analytics pipeline: the four batch scripts  *)
(* 02_transform_data.py, 03_predictive_analytics.py,                        *)
(* 04_prescriptive_analytics.py and 05_dashboard_outputs.py, run in order   *)
(* over the CSV files of the data/ directory.                               *)
(*                                                                          *)
(* Tables are sequences of records (a row is a record, the sequence order   *)
(* is the row order of the DataFrame).  Numbers are integers in a fixed     *)
(* unit per column:                                                         *)
(*     quantities, stock, days            units                             *)
(*     unit_cost, unit_price, revenue     cents          (2 decimals)       *)
(*     avg_demand, demand_std             hundredths     (.round(2))        *)
(*     avg_delivery_time                  hundredths     (.round(2))        *)
(*     reliability_score                  hundredths     (2 decimals)       *)
(*     rates and scores                   thousandths    (.round(3))        *)
(*     forecasts                          tenths         (round(x, 1))      *)
(* A float column that can hold a non-finite value is a record              *)
(* [k |-> "num" | "nan" | "inf", v |-> Int].                                *)
(* Arithmetic is exact (rational), rounded where the code rounds, half to   *)
(* even as numpy does; the binary rounding error of float64 is not          *)
(* modelled.                                                                *)
(***************************************************************************)
EXTENDS Integers, Sequences, FiniteSets, TLC

VARIABLES
    raw,     \* the six raw tables of data/raw read by 02_transform_data.py
    disk,    \* the derived CSV files: file name -> Absent or [run, rows]
    pc,      \* the script that runs next: "s2", "s3", "s4", "s5", "done", "failed"
    run      \* the number of the current pipeline run

vars == <<raw, disk, pc, run>>

-----------------------------------------------------------------------------
(* Floats that can be non-finite *)

Num(x) == [k |-> "num", v |-> x]

NaN == [k |-> "nan", v |-> 0]

Inf == [k |-> "inf", v |-> 0]

IsNum(f) == f.k = "num"

-----------------------------------------------------------------------------
(* Sequence helpers *)

Range(s) == {s[i] : i \in 1..Len(s)}

RECURSIVE SumSeq(_)
SumSeq(s) == IF s = <<>> THEN 0 ELSE Head(s) + SumSeq(Tail(s))

Min(S) == CHOOSE x \in S : \A y \in S : x <= y

Max(S) == CHOOSE x \in S : \A y \in S : x >= y

\* DataFrame boolean indexing: the rows that satisfy Test, in order.
SelectRows(s, Test(_)) == SelectSeq(s, Test)

\* The elements of a set of integers in ascending order (groupby sorts its keys).
RECURSIVE SortedKeys(_)
SortedKeys(S) == IF S = {} THEN <<>> ELSE <<Min(S)>> \o SortedKeys(S \ {Min(S)})

\* Series.map over a sequence.
MapSeq(s, Op(_)) == [i \in 1..Len(s) |-> Op(s[i])]

-----------------------------------------------------------------------------
(* Rounding *)

\* numpy round of the rational n/d (d > 0) to an integer, half to even.
RoundDiv(n, d) ==
    LET q == n \div d
        r == n % d
    IN  IF 2 * r < d THEN q
        ELSE IF 2 * r > d THEN q + 1
        ELSE IF q % 2 = 0 THEN q ELSE q + 1

\* Naturals of any size: the digits in base 10000, least significant first.
RECURSIVE BigMulSmall(_, _, _)
BigMulSmall(b, k, carry) ==
    IF b = <<>> THEN (IF carry = 0 THEN <<>>
                      ELSE <<carry % 10000>> \o BigMulSmall(<<>>, k, carry \div 10000))
    ELSE LET v == Head(b) * k + carry
         IN  <<v % 10000>> \o BigMulSmall(Tail(b), k, v \div 10000)

\* The product of a sequence of factors, each below 200000.
RECURSIVE BigProd(_)
BigProd(fs) ==
    IF fs = <<>> THEN <<1>> ELSE BigMulSmall(BigProd(Tail(fs)), Head(fs), 0)

RECURSIVE BigTrim(_)
BigTrim(b) ==
    IF b # <<>> /\ b[Len(b)] = 0 THEN BigTrim(SubSeq(b, 1, Len(b) - 1)) ELSE b

RECURSIVE BigLeqAt(_, _, _)
BigLeqAt(a, b, i) ==
    IF i = 0 THEN TRUE
    ELSE IF a[i] # b[i] THEN a[i] < b[i]
    ELSE BigLeqAt(a, b, i - 1)

BigLeq(x, y) ==
    LET a == BigTrim(x)
        b == BigTrim(y)
    IN  IF Len(a) # Len(b) THEN Len(a) < Len(b) ELSE BigLeqAt(a, b, Len(a))

\* The largest m in lo..hi with m * m * prod(ds) <= 4 * prod(ns), by bisection.
RECURSIVE TwiceRootIter(_, _, _, _)
TwiceRootIter(ns, ds, lo, hi) ==
    IF lo >= hi THEN lo
    ELSE LET mid == (lo + hi + 1) \div 2
         IN  IF BigLeq(BigProd(<<mid, mid>> \o ds), BigProd(<<4>> \o ns))
             THEN TwiceRootIter(ns, ds, mid, hi)
             ELSE TwiceRootIter(ns, ds, lo, mid - 1)

\* np.sqrt(prod(ns) / prod(ds)).round(0), half to even; the factors are
\* naturals below 200000, those of ds positive, and the root is below 50000.
RoundSqrt(ns, ds) ==
    LET m == TwiceRootIter(ns, ds, 0, 100000)    \* floor(2 * sqrt(n/d))
        j == m \div 2
        exact == BigLeq(BigProd(<<4>> \o ns), BigProd(<<m, m>> \o ds))
    IN  IF m % 2 = 0 THEN j
        ELSE IF exact                    \* sqrt(n/d) is exactly j + 1/2
             THEN (IF j % 2 = 0 THEN j ELSE j + 1)
             ELSE j + 1

-----------------------------------------------------------------------------
(* 02_transform_data.py *)

\* DataFrame.drop_duplicates(subset=[key]) with the key column keys: the first
\* row of each key is kept.
DropDuplicates(rows, keys) ==
    LET Keep(i) == \A j \in 1..(i - 1) : keys[j] # keys[i]
        RECURSIVE Go(_)
        Go(i) == IF i > Len(rows) THEN <<>>
                 ELSE (IF Keep(i) THEN <<rows[i]>> ELSE <<>>) \o Go(i + 1)
    IN  Go(1)

\* The rows of the products table with this product_id (a merge joins on them).
ProductRows(products, pid) == SelectRows(products, LAMBDA p : p.product_id = pid)

\* (quantity_fulfilled / quantity_ordered).round(3), in thousandths: x/0 is
\* inf for x > 0 and undefined for x = 0.
fulfillment_rate(quantity_fulfilled, quantity_ordered) ==
    IF quantity_ordered = 0
    THEN (IF quantity_fulfilled = 0 THEN NaN ELSE Inf)
    ELSE Num(RoundDiv(1000 * quantity_fulfilled, quantity_ordered))

\* One sales row with the columns merged in from its product row, if any,
\* and the columns derived from them; money in cents.
EnrichSale(products, s) ==
    LET ps == ProductRows(products, s.product_id)
        unit_price == IF ps = <<>> THEN NaN ELSE Num(ps[1].unit_price)
        unit_cost == IF ps = <<>> THEN NaN ELSE Num(ps[1].unit_cost)
        revenue == IF ps = <<>> THEN NaN
                   ELSE Num(s.quantity_fulfilled * ps[1].unit_price)
        cost == IF ps = <<>> THEN NaN
                ELSE Num(s.quantity_fulfilled * ps[1].unit_cost)
    IN  [transaction_id |-> s.transaction_id,
         date |-> s.date,
         product_id |-> s.product_id,
         warehouse_id |-> s.warehouse_id,
         quantity_ordered |-> s.quantity_ordered,
         quantity_fulfilled |-> s.quantity_fulfilled,
         unit_price |-> unit_price,
         unit_cost |-> unit_cost,
         revenue |-> revenue,
         cost |-> cost,
         profit |-> IF IsNum(revenue) /\ IsNum(cost)
                    THEN Num(revenue.v - cost.v) ELSE NaN,
         stockout_flag |-> IF s.quantity_fulfilled < s.quantity_ordered THEN 1 ELSE 0,
         fulfillment_rate |->
             fulfillment_rate(s.quantity_fulfilled, s.quantity_ordered)]

\* A merge that keeps the sales of the products of the products table only.
SaleMatchesOfKnown(products, s) ==
    LET ps == ProductRows(products, s.product_id)
    IN  [i \in 1..Len(ps) |-> EnrichSale(<<ps[i]>>, s)]

\* The rows that sales.merge(products[[...]], on='product_id', how='left')
\* gives for one sales row: one per product row of its product_id, or a
\* single row without product columns when there is none.
SaleMatches(products, s) ==
    LET ps == ProductRows(products, s.product_id)
    IN  IF ps = <<>> THEN <<EnrichSale(<<>>, s)>>
        ELSE [i \in 1..Len(ps) |-> EnrichSale(<<ps[i]>>, s)]

\* The sales table as saved to sales_transformed.csv.
SalesTransformed(r) ==
    LET sales == DropDuplicates(r.sales, MapSeq(r.sales, LAMBDA s : s.transaction_id))
        RECURSIVE Go(_)
        Go(i) == IF i > Len(sales) THEN <<>>
                 ELSE SaleMatches(r.products, sales[i]) \o Go(i + 1)
    IN  Go(1)

\* Series.std(): the sample standard deviation, rounded to 2 decimals
\* (hundredths); undefined for a single value.
SampleStd(qs) ==
    LET n == Len(qs)
        s1 == SumSeq(qs)
        s2 == SumSeq(MapSeq(qs, LAMBDA q : q * q))
    IN  IF n < 2 THEN NaN
        ELSE Num(RoundSqrt(<<10000, n * s2 - s1 * s1>>, <<n, n - 1>>))

\* Series.sum() of a float column skips the undefined values.
SumFinite(fs) == SumSeq(MapSeq(fs, LAMBDA f : IF IsNum(f) THEN f.v ELSE 0))

\* One row of sales.groupby('product_id').agg(...).round(2).
ProductAgg(sales, pid) ==
    LET rows == SelectRows(sales, LAMBDA s : s.product_id = pid)
        qs == MapSeq(rows, LAMBDA s : s.quantity_ordered)
    IN  [product_id |-> pid,
         avg_demand |-> RoundDiv(100 * SumSeq(qs), Len(qs)),
         demand_std |-> SampleStd(qs),
         total_revenue |-> SumFinite(MapSeq(rows, LAMBDA s : s.revenue)),
         stockout_count |-> SumSeq(MapSeq(rows, LAMBDA s : s.stockout_flag)),
         transaction_count |-> Len(rows)]

\* Product metrics of every product_id of the sales table, in the products
\* table or not.
ProductMetricsOfAllSales(sales, products) ==
    MapSeq(SortedKeys({s.product_id : s \in Range(sales)}),
           LAMBDA k : ProductAgg(sales, k))

\* product_metrics: one row per product_id of the sales table, in key order,
\* inner-merged with the products table.
ProductMetrics(sales, products) ==
    LET keys == SortedKeys({s.product_id : s \in Range(sales)})
        known == {p.product_id : p \in Range(products)}
    IN  MapSeq(SelectRows(keys, LAMBDA k : k \in known),
               LAMBDA k : ProductAgg(sales, k))

\* supply_orders with the product lead time merged in and is_delayed derived;
\* an order of an unknown product has an undefined delay, which is not > 0.
IsDelayed(products, o) ==
    LET ps == ProductRows(products, o.product_id)
    IN  IF ps = <<>> THEN 0
        ELSE IF o.delivery_days_actual - ps[1].lead_time_days > 0 THEN 1 ELSE 0

\* One row of supply_orders.groupby('supplier_id').agg(...).round(2) with
\* on_time_rate, merged with the supplier's reliability_score.
SupplierAgg(orders, products, sup) ==
    LET rows == SelectRows(orders, LAMBDA o : o.supplier_id = sup.supplier_id)
        n == Len(rows)
        delayed == SumSeq(MapSeq(rows, LAMBDA o : IsDelayed(products, o)))
    IN  [supplier_id |-> sup.supplier_id,
         total_orders |-> n,
         delayed_orders |-> delayed,
         avg_delivery_time |->
             RoundDiv(100 * SumSeq(MapSeq(rows, LAMBDA o : o.delivery_days_actual)), n),
         on_time_rate |-> RoundDiv(1000 * (n - delayed), n),
         reliability_score |-> sup.reliability_score]

\* supplier_metrics: one row per supplier_id of the orders, in key order,
\* inner-merged with the suppliers table.
SupplierMetrics(r) ==
    LET orders == DropDuplicates(r.supply_orders,
                                 MapSeq(r.supply_orders, LAMBDA o : o.order_id))
        keys == SortedKeys({o.supplier_id : o \in Range(orders)})
        SupOf(k) == SelectRows(r.suppliers, LAMBDA s : s.supplier_id = k)
    IN  MapSeq(SelectRows(keys, LAMBDA k : SupOf(k) # <<>>),
               LAMBDA k : SupplierAgg(orders, r.products, SupOf(k)[1]))

\* One row of sales.groupby('warehouse_id').agg(...).
WarehouseAgg(sales, wid) ==
    LET rows == SelectRows(sales, LAMBDA s : s.warehouse_id = wid)
    IN  [warehouse_id |-> wid,
         total_fulfilled |-> SumSeq(MapSeq(rows, LAMBDA s : s.quantity_fulfilled)),
         total_revenue |-> SumFinite(MapSeq(rows, LAMBDA s : s.revenue))]

\* warehouse_metrics: one row per warehouse_id of the sales table, in key
\* order, inner-merged with the warehouses table, whose columns, whichever
\* they are, come with the match.
WarehouseMetrics(sales, warehouses) ==
    LET keys == SortedKeys({s.warehouse_id : s \in Range(sales)})
        WhOf(k) == SelectRows(warehouses, LAMBDA w : w.warehouse_id = k)
    IN  MapSeq(SelectRows(keys, LAMBDA k : WhOf(k) # <<>>),
               LAMBDA k : WarehouseAgg(sales, k) @@ WhOf(k)[1])

\* A table without the column c (a table of no row keeps its columns).
Lacks(table, c) == table # <<>> /\ c \notin DOMAIN table[1]

\* The columns of each raw table that the script indexes by name: one of
\* them missing is a KeyError, raised before the first to_csv.
Stage2Uses ==
    [products |-> {"product_id", "unit_price", "unit_cost", "lead_time_days"},
     suppliers |-> {"supplier_id", "reliability_score"},
     warehouses |-> {"warehouse_id"},
     sales |-> {"transaction_id", "date", "product_id", "warehouse_id",
                "quantity_ordered", "quantity_fulfilled"},
     inventory |-> {"date", "current_stock"},
     supply_orders |-> {"order_id", "supplier_id", "product_id",
                        "delivery_days_actual"}]

Stage2Fails(r) ==
    \E t \in DOMAIN Stage2Uses : \E c \in Stage2Uses[t] : Lacks(r[t], c)

-----------------------------------------------------------------------------
(* Exact rationals [n, d] with d > 0, in lowest terms *)

RECURSIVE GCD(_, _)
GCD(a, b) == IF b = 0 THEN a ELSE GCD(b, a % b)

Q(n, d) ==
    LET g == GCD(IF n < 0 THEN -n ELSE n, d)
    IN  [n |-> n \div g, d |-> d \div g]

QAdd(x, y) ==
    LET g == GCD(x.d, y.d)
    IN  Q(x.n * (y.d \div g) + y.n * (x.d \div g), (x.d \div g) * y.d)

QSub(x, y) == QAdd(x, [n |-> -y.n, d |-> y.d])

QMul(x, y) ==
    LET a == Q(x.n, y.d)
        b == Q(y.n, x.d)
    IN  [n |-> a.n * b.n, d |-> a.d * b.d]

QLeq(x, y) == x.n * y.d <= y.n * x.d

\* No clip at all: the value as it is.
FNoClip(f, u) == f

\* Series.clip(upper=u)
QClipUpper(x, u) == IF QLeq(x, u) THEN x ELSE u

\* Series.round(k) of a rational, in units of 10^-k (scale = 10^k).
QRound(x, scale) == RoundDiv(scale * x.n, x.d)

-----------------------------------------------------------------------------
(* 03_predictive_analytics.py: demand forecasting *)

TopN == 5          \* nlargest(5, 'total_revenue')

MinHistory == 60   \* if len(daily_demand) > 60

EwmSpan == 7       \* ewm(span=7, adjust=False)

Horizon == 30      \* pd.date_range(..., periods=30, freq='D')

LowerTenths == 8   \* round(last_ema * 0.80, 1), in tenths

UpperTenths == 12  \* round(last_ema * 1.20, 1), in tenths

\* DataFrame.nlargest(n, col) on the column values vals: the indices of the n
\* largest values, largest first, ties in row order (keep='first').
RECURSIVE NLargestIdx(_, _, _)
NLargestIdx(n, vals, taken) ==
    LET left == (1..Len(vals)) \ taken
    IN  IF n = 0 \/ left = {} THEN <<>>
        ELSE LET best == Max({vals[i] : i \in left})
                 at == Min({i \in left : vals[i] = best})
             IN  <<at>> \o NLargestIdx(n - 1, vals, taken \cup {at})

NLargest(n, rows, vals) ==
    MapSeq(NLargestIdx(n, vals, {}), LAMBDA i : rows[i])

top_products(product_metrics) ==
    MapSeq(NLargest(TopN, product_metrics,
                    MapSeq(product_metrics, LAMBDA m : m.total_revenue)),
           LAMBDA m : m.product_id)

\* A series of the days that have a transaction only.
daily_demand_of_sale_days(sales, prod_id) ==
    LET prod_sales == SelectRows(sales, LAMBDA s : s.product_id = prod_id)
        dates == SortedKeys({s.date : s \in Range(prod_sales)})
        Day(d) == SumSeq(MapSeq(SelectRows(prod_sales, LAMBDA s : s.date = d),
                                LAMBDA s : s.quantity_ordered))
    IN  [first |-> dates[1],
         last |-> dates[Len(dates)],
         quantity |-> [i \in 1..Len(dates) |-> Day(dates[i])]]

\* The dense daily series of one product: groupby('date') sum of
\* quantity_ordered, reindexed over every day from the first to the last
\* transaction date with fill_value=0.  [first, last, quantity]
daily_demand(sales, prod_id) ==
    LET prod_sales == SelectRows(sales, LAMBDA s : s.product_id = prod_id)
        dates == {s.date : s \in Range(prod_sales)}
        first == Min(dates)
        last == Max(dates)
        Day(d) == SumSeq(MapSeq(SelectRows(prod_sales, LAMBDA s : s.date = d),
                                LAMBDA s : s.quantity_ordered))
    IN  [first |-> first,
         last |-> last,
         quantity |-> [i \in 1..(last - first + 1) |-> Day(first + i - 1)]]

\* The moving average is a binary fraction that gains three bits a day, so
\* it is kept exactly: e.int + SUM e.frac[i] / Word^i, the words of e.frac
\* being groups of eight digits of base EwmSpan + 1.
Word == (EwmSpan + 1) ^ 8

RECURSIVE MulWords(_, _)
MulWords(ws, k) ==
    IF ws = <<>> THEN [c |-> 0, d |-> <<>>]
    ELSE LET rest == MulWords(Tail(ws), k)
             v == Head(ws) * k + rest.c
         IN  [c |-> v \div Word, d |-> <<v % Word>> \o rest.d]

\* (r + 0.ws) / (EwmSpan + 1) for a remainder r < EwmSpan + 1: the words of
\* the quotient and what is left after the last of them.
RECURSIVE DivWords(_, _)
DivWords(ws, r) ==
    IF ws = <<>> THEN [d |-> <<>>, r |-> r]
    ELSE LET cur == r * Word + Head(ws)
             rest == DivWords(Tail(ws), cur % (EwmSpan + 1))
         IN  [d |-> <<cur \div (EwmSpan + 1)>> \o rest.d, r |-> rest.r]

Scaled(e, k) ==
    LET m == MulWords(e.frac, k)
    IN  [int |-> k * e.int + m.c, frac |-> m.d]

\* A smoothing step of weight 1 / (span + 1) instead of 2 / (span + 1).
EwmStepUnitWeight(e, x) ==
    LET m == Scaled(e, EwmSpan)
        i == m.int + x
        q == DivWords(m.frac, i % (EwmSpan + 1))
    IN  [int |-> i \div (EwmSpan + 1),
         frac |-> q.d \o (IF q.r = 0 THEN <<>>
                          ELSE <<q.r * (Word \div (EwmSpan + 1))>>)]

\* One step of ewm(span, adjust=False).mean() with alpha = 2 / (span + 1):
\* y[t] = (1 - alpha) * y[t-1] + alpha * x[t]
\*      = ((span - 1) * y[t-1] + 2 * x[t]) / (span + 1)
EwmStep(e, x) ==
    LET m == Scaled(e, EwmSpan - 1)
        i == m.int + 2 * x
        q == DivWords(m.frac, i % (EwmSpan + 1))
    IN  [int |-> i \div (EwmSpan + 1),
         frac |-> q.d \o (IF q.r = 0 THEN <<>>
                          ELSE <<q.r * (Word \div (EwmSpan + 1))>>)]

\* The moving average from day t on, e being its value on day t - 1.  (The
\* test of y only makes the evaluation proceed day by day.)
RECURSIVE EwmFrom(_, _, _)
EwmFrom(quantity, t, e) ==
    IF t > Len(quantity) THEN e
    ELSE LET y == EwmStep(e, quantity[t])
         IN  IF y.int >= 0 THEN EwmFrom(quantity, t + 1, y) ELSE y

\* The last value of the series' moving average; y[0] = x[0].
last_ema(quantity) == EwmFrom(quantity, 2, [int |-> quantity[1], frac |-> <<>>])

\* round(e) to an integer, half to even.
RoundEma(e) ==
    LET half == (EwmSpan + 1) \div 2
        unit == Word \div (EwmSpan + 1)
        first == IF e.frac = <<>> THEN 0 ELSE e.frac[1] \div unit
        more == /\ e.frac # <<>>
                /\ \/ e.frac[1] % unit # 0
                   \/ \E i \in 2..Len(e.frac) : e.frac[i] # 0
    IN  IF first > half \/ (first = half /\ more) THEN e.int + 1
        ELSE IF first < half THEN e.int
        ELSE IF e.int % 2 = 0 THEN e.int ELSE e.int + 1

\* Variants of ForecastRows: one that also forecasts a history of exactly
\* MinHistory days, one whose dates start on the last observed day, and one
\* whose bounds are exchanged.
ForecastRowsFromMinimum(sales, prod_id) ==
    LET dd == daily_demand(sales, prod_id)
        ema == last_ema(dd.quantity)
    IN  IF Len(dd.quantity) >= MinHistory
        THEN [i \in 1..Horizon |->
                 [product_id |-> prod_id,
                  forecast_date |-> dd.last + i,
                  forecasted_demand |-> RoundEma(Scaled(ema, 10)),
                  lower_bound |-> RoundEma(Scaled(ema, LowerTenths)),
                  upper_bound |-> RoundEma(Scaled(ema, UpperTenths))]]
        ELSE <<>>

ForecastRowsFromLastDay(sales, prod_id) ==
    LET dd == daily_demand(sales, prod_id)
        ema == last_ema(dd.quantity)
    IN  IF Len(dd.quantity) > MinHistory
        THEN [i \in 1..Horizon |->
                 [product_id |-> prod_id,
                  forecast_date |-> dd.last + i - 1,
                  forecasted_demand |-> RoundEma(Scaled(ema, 10)),
                  lower_bound |-> RoundEma(Scaled(ema, LowerTenths)),
                  upper_bound |-> RoundEma(Scaled(ema, UpperTenths))]]
        ELSE <<>>

ForecastRowsBoundsExchanged(sales, prod_id) ==
    LET dd == daily_demand(sales, prod_id)
        ema == last_ema(dd.quantity)
    IN  IF Len(dd.quantity) > MinHistory
        THEN [i \in 1..Horizon |->
                 [product_id |-> prod_id,
                  forecast_date |-> dd.last + i,
                  forecasted_demand |-> RoundEma(Scaled(ema, 10)),
                  lower_bound |-> RoundEma(Scaled(ema, UpperTenths)),
                  upper_bound |-> RoundEma(Scaled(ema, LowerTenths))]]
        ELSE <<>>

\* The rows appended to forecasts_list for one product (empty when the
\* history is too short).
ForecastRows(sales, prod_id) ==
    LET dd == daily_demand(sales, prod_id)
        ema == last_ema(dd.quantity)
    IN  IF Len(dd.quantity) > MinHistory
        THEN [i \in 1..Horizon |->
                 [product_id |-> prod_id,
                  forecast_date |-> dd.last + i,
                  forecasted_demand |-> RoundEma(Scaled(ema, 10)),
                  lower_bound |-> RoundEma(Scaled(ema, LowerTenths)),
                  upper_bound |-> RoundEma(Scaled(ema, UpperTenths))]]
        ELSE <<>>

RECURSIVE Concat(_)
Concat(ss) == IF ss = <<>> THEN <<>> ELSE Head(ss) \o Concat(Tail(ss))

forecast_df(sales, product_metrics) ==
    Concat(MapSeq(top_products(product_metrics),
                  LAMBDA prod_id : ForecastRows(sales, prod_id)))

-----------------------------------------------------------------------------
(* pandas float arithmetic on [k, v] values whose v is an exact rational *)

\* Series / Series: x/0 is inf for x > 0 and undefined for x = 0.
FDiv(x, y) ==
    IF y.n = 0 THEN (IF x.n = 0 THEN NaN ELSE Inf)
    ELSE Num(Q(x.n * y.d, x.d * y.n))

\* Series.fillna(q): only an undefined value is replaced, not inf.
FillNa(f, q) == IF f.k = "nan" THEN Num(q) ELSE f

\* Series.clip(upper=u)
FClipUpper(f, u) ==
    IF f.k = "inf" THEN Num(u)
    ELSE IF f.k = "nan" THEN f
    ELSE Num(QClipUpper(f.v, u))

FAdd(f, g) == IF IsNum(f) /\ IsNum(g) THEN Num(QAdd(f.v, g.v)) ELSE NaN

FScale(q, f) == IF IsNum(f) THEN Num(QMul(q, f.v)) ELSE NaN

\* The float of a column kept in hundredths.
Hundredths(f) == IF IsNum(f) THEN Num(Q(f.v, 100)) ELSE f

-----------------------------------------------------------------------------
(* 03_predictive_analytics.py: stockout risk *)

\* inventory.sort_values('date').groupby('product_id').last(): the stock of a
\* snapshot of the product with the latest date.  sort_values uses an
\* unstable sort, so among several snapshots of that date any may come last.
LatestStockChoices(inventory, pid) ==
    LET snaps == {i \in Range(inventory) : i.product_id = pid}
        latest == Max({i.date : i \in snaps})
    IN  {i.current_stock : i \in {j \in snaps : j.date = latest}}

\* The possible latest_inventory tables: product_id -> current_stock.
LatestInventoryChoices(inventory) ==
    LET pids == {i.product_id : i \in Range(inventory)}
    IN  {f \in [pids -> {i.current_stock : i \in Range(inventory)}] :
            \A p \in pids : f[p] \in LatestStockChoices(inventory, p)}

\* pd.cut(score, bins=[0, 0.35, 0.65, 1.0], labels=[...]): right-closed
\* intervals, the lowest edge not included; "" is the missing category.
risk_category(score) ==
    IF ~IsNum(score) THEN ""
    ELSE IF 0 < score.v /\ score.v <= 350 THEN "Low Risk"
    ELSE IF 350 < score.v /\ score.v <= 650 THEN "Medium Risk"
    ELSE IF 650 < score.v /\ score.v <= 1000 THEN "High Risk"
    ELSE ""

demand_volatility(m) ==
    FClipUpper(FillNa(IF IsNum(m.demand_std)
                      THEN FDiv(Q(m.demand_std.v, 100), Q(m.avg_demand, 100))
                      ELSE NaN,
                      Q(0, 1)),
               Q(2, 1))

historical_stockout_rate(m) ==
    FillNa(FDiv(Q(m.stockout_count, 1), Q(m.transaction_count, 1)), Q(0, 1))

days_of_stock(m, current_stock) ==
    FClipUpper(FillNa(FDiv(Q(current_stock, 1), Q(m.avg_demand, 100)), Q(0, 1)),
               Q(365, 1))

\* The composite score in thousandths (.round(3)), undefined when a term is.
stockout_risk_score(m, current_stock, lead_time_days, max_lead) ==
    LET One == Num(Q(1, 1))
        dos30 == FClipUpper(FScale(Q(1, 30), days_of_stock(m, current_stock)), Q(1, 1))
        sum == FAdd(FAdd(FScale(Q(30, 100), historical_stockout_rate(m)),
                         FScale(Q(25, 100), FClipUpper(demand_volatility(m), Q(1, 1)))),
                    FAdd(FScale(Q(25, 100), FAdd(One, FScale(Q(-1, 1), dos30))),
                         FScale(Q(20, 100),
                                FDiv(Q(lead_time_days, 1), Q(max_lead, 1)))))
    IN  IF IsNum(sum) THEN Num(QRound(sum.v, 1000)) ELSE NaN

\* One row of risk_features.
RiskRow(m, current_stock, lead_time_days, max_lead) ==
    LET score == stockout_risk_score(m, current_stock, lead_time_days, max_lead)
    IN  [product_id |-> m.product_id,
         avg_demand |-> m.avg_demand,
         demand_std |-> m.demand_std,
         current_stock |-> current_stock,
         lead_time_days |-> lead_time_days,
         demand_volatility |-> demand_volatility(m),
         historical_stockout_rate |-> historical_stockout_rate(m),
         days_of_stock |-> days_of_stock(m, current_stock),
         stockout_risk_score |-> score,
         risk_category |-> risk_category(score)]

\* risk_features: product_metrics left-merged with latest_inventory (no
\* snapshot: current_stock 0) and inner-merged with products.
risk_features(product_metrics, latest_inventory, products) ==
    LET known == SelectRows(product_metrics,
                            LAMBDA m : ProductRows(products, m.product_id) # <<>>)
        Lead(m) == ProductRows(products, m.product_id)[1].lead_time_days
        max_lead == Max({Lead(known[i]) : i \in 1..Len(known)})
        Stock(m) == IF m.product_id \in DOMAIN latest_inventory
                    THEN latest_inventory[m.product_id] ELSE 0
    IN  MapSeq(known, LAMBDA m : RiskRow(m, Stock(m), Lead(m), max_lead))

\* The inventory rows IsolationForest(contamination=0.05) may flag in a table
\* of a few rows: none, or the one row of lowest score.
AnomalyChoices(inventory) ==
    {<<>>} \cup {<<inventory[i]>> : i \in 1..Len(inventory)}

-----------------------------------------------------------------------------
(* 04_prescriptive_analytics.py *)

ordering_cost == 100

holding_cost_rate == 25      \* 0.25, in hundredths

DaysPerYear == 365           \* annual_demand = avg_demand * 365

ServiceFactor == 165         \* z = 1.65, in hundredths

PreferredRank == 5           \* rank <= 5: 'Preferred'

ApprovedRank == 15           \* rank <= 15: 'Approved'

\* Series.astype(int) raises on a value that is not finite.
CastFails(f) == ~IsNum(f)

\* An order quantity of one unit of daily demand, whatever the demand is.
order_quantity_of_unit_demand(avg_demand, unit_cost) ==
    IF unit_cost = 0 THEN (IF avg_demand = 0 THEN NaN ELSE Inf)
    ELSE Num(RoundSqrt(<<2, DaysPerYear, 100, ordering_cost, 100>>,
                       <<unit_cost, holding_cost_rate>>))

\* np.sqrt(2 * annual_demand * ordering_cost / holding_cost).round(0) with
\* annual_demand = avg_demand * 365 and holding_cost = unit_cost * 0.25;
\* avg_demand in hundredths and unit_cost in cents.
optimal_order_quantity(avg_demand, unit_cost) ==
    IF unit_cost = 0 THEN (IF avg_demand = 0 THEN NaN ELSE Inf)
    ELSE Num(RoundSqrt(<<2, DaysPerYear, avg_demand, ordering_cost, 100>>,
                       <<unit_cost, holding_cost_rate>>))

\* A safety stock that grows with the lead time, not with its square root.
safety_stock_linear(demand_std, lead_time_days) ==
    IF ~IsNum(demand_std) THEN NaN
    ELSE Num(RoundDiv(ServiceFactor * demand_std.v * lead_time_days, 10000))

\* (1.65 * demand_std * np.sqrt(lead_time_days)).round(0); demand_std in
\* hundredths.
safety_stock(demand_std, lead_time_days) ==
    IF ~IsNum(demand_std) THEN NaN
    ELSE Num(RoundSqrt(<<ServiceFactor, ServiceFactor, demand_std.v, demand_std.v,
                         lead_time_days>>,
                       <<100, 100, 100, 100>>))

\* A reorder point that covers the lead-time demand only.
reorder_point_of_demand(avg_demand, lead_time_days, ss) ==
    QRound(Q(avg_demand * lead_time_days, 100), 1)

\* (avg_demand * lead_time_days + safety_stock).round(0), safety_stock being
\* the rounded column; avg_demand in hundredths.
optimal_reorder_point(avg_demand, lead_time_days, ss) ==
    QRound(QAdd(Q(avg_demand * lead_time_days, 100), Q(ss, 1)), 1)

\* The difference of the two carrying costs, negative or not.
carrying_cost_difference(current_carrying_cost, annual_carrying_cost) ==
    current_carrying_cost - annual_carrying_cost

\* (current_carrying_cost - annual_carrying_cost).clip(lower=0).round(2), in
\* cents.
potential_savings(current_carrying_cost, annual_carrying_cost) ==
    IF current_carrying_cost - annual_carrying_cost > 0
    THEN current_carrying_cost - annual_carrying_cost ELSE 0

\* One row of reorder_optimization, all its integer columns being finite.
\* Costs are in cents (.round(2)).
ReorderRow(r, unit_cost) ==
    LET oq == optimal_order_quantity(r.avg_demand, unit_cost).v
        ss == safety_stock(r.demand_std, r.lead_time_days).v
        avg_inventory_level == RoundDiv(2 * ss + oq, 2)
        annual_carrying_cost ==
            QRound(QMul(Q(avg_inventory_level * unit_cost, 1),
                        Q(holding_cost_rate, 100)), 1)
        current_carrying_cost ==
            QRound(QMul(Q(r.current_stock * unit_cost, 1),
                        Q(holding_cost_rate, 100)), 1)
    IN  [product_id |-> r.product_id,
         avg_demand |-> r.avg_demand,
         demand_std |-> r.demand_std,
         current_stock |-> r.current_stock,
         lead_time_days |-> r.lead_time_days,
         stockout_risk_score |-> r.stockout_risk_score,
         risk_category |-> r.risk_category,
         unit_cost |-> unit_cost,
         optimal_order_quantity |-> oq,
         safety_stock |-> ss,
         optimal_reorder_point |->
             optimal_reorder_point(r.avg_demand, r.lead_time_days, ss),
         avg_inventory_level |-> avg_inventory_level,
         annual_carrying_cost |-> annual_carrying_cost,
         current_carrying_cost |-> current_carrying_cost,
         potential_savings |->
             potential_savings(current_carrying_cost, annual_carrying_cost)]

\* The risk rows that the inner merge with products keeps.
ReorderInputs(risk_scores, products) ==
    SelectRows(risk_scores, LAMBDA r : ProductRows(products, r.product_id) # <<>>)

\* An .astype(int) of the reorder computation raises: the script stops.
ReorderFails(risk_scores, products) ==
    \E r \in Range(ReorderInputs(risk_scores, products)) :
        \/ CastFails(optimal_order_quantity(
               r.avg_demand, ProductRows(products, r.product_id)[1].unit_cost))
        \/ CastFails(safety_stock(r.demand_std, r.lead_time_days))

reorder_optimization(risk_scores, products) ==
    MapSeq(ReorderInputs(risk_scores, products),
           LAMBDA r : ReorderRow(r, ProductRows(products, r.product_id)[1].unit_cost))

\* performance_score in thousandths (.round(3)); cost_efficiency is undefined
\* when the largest avg_delivery_time is 0.
performance_score(m, max_delivery) ==
    LET cost_efficiency ==
            FAdd(Num(Q(1, 1)),
                 FScale(Q(-1, 1),
                        FDiv(Q(m.avg_delivery_time, 100), Q(max_delivery, 100))))
        sum == FAdd(Num(QAdd(QMul(Q(40, 100), Q(m.on_time_rate, 1000)),
                             QMul(Q(30, 100), Q(m.reliability_score, 100)))),
                    FScale(Q(30, 100), cost_efficiency))
    IN  IF IsNum(sum) THEN Num(QRound(sum.v, 1000)) ELSE NaN

Scored(supplier_metrics) ==
    LET max_delivery ==
            Max({supplier_metrics[i].avg_delivery_time : i \in 1..Len(supplier_metrics)})
    IN  MapSeq(supplier_metrics,
               LAMBDA m : [supplier_id |-> m.supplier_id,
                           on_time_rate |-> m.on_time_rate,
                           performance_score |-> performance_score(m, max_delivery)])

RowOrders(n) == {f \in [1..n -> 1..n] : \A i, j \in 1..n : f[i] = f[j] => i = j}

\* No sort at all: the rows as they come.
KeepOrder(rows, keys) == {rows}

\* DataFrame.sort_values(col, ascending=False) with the column values keys:
\* the orders the sort may produce.  The default sort (quicksort) is not
\* stable: rows of equal value come in any order; rows without a value come
\* last, in their original order.
SortChoices(rows, keys) ==
    LET n == Len(rows)
        Before(a, b) ==      \* row a must precede row b
            \/ IsNum(keys[a]) /\ ~IsNum(keys[b])
            \/ IsNum(keys[a]) /\ IsNum(keys[b]) /\ keys[a].v > keys[b].v
            \/ ~IsNum(keys[a]) /\ ~IsNum(keys[b]) /\ a < b
    IN  {[i \in 1..n |-> rows[f[i]]] :
            f \in {g \in RowOrders(n) :
                     \A i, j \in 1..n : Before(g[i], g[j]) => i < j}}

recommendation(rank) ==
    IF rank <= PreferredRank THEN "Preferred"
    ELSE IF rank <= ApprovedRank THEN "Approved" ELSE "Review Required"

\* supplier_ranking of one sorted order: rank = 1..n down the rows.
Ranked(sorted) ==
    [i \in 1..Len(sorted) |->
        [supplier_id |-> sorted[i].supplier_id,
         on_time_rate |-> sorted[i].on_time_rate,
         performance_score |-> sorted[i].performance_score,
         rank |-> i,
         recommendation |-> recommendation(i)]]

SupplierRankingChoices(supplier_metrics) ==
    LET scored == Scored(supplier_metrics)
    IN  {Ranked(sorted) :
            sorted \in SortChoices(scored,
                                   MapSeq(scored, LAMBDA m : m.performance_score))}

AutomationBenefit == 2000     \* risk_products_count * 2000

DefaultBenefit == 10000       \* else 10000  # Default benefit

MediumHead == 10              \* medium_risk_products.head(10)

\* len(high_risk_products) if there is one, else the number of the first 10
\* medium-risk products.
risk_products_count(reorder) ==
    LET high == SelectRows(reorder, LAMBDA r : r.risk_category = "High Risk")
        medium == SelectRows(reorder, LAMBDA r : r.risk_category = "Medium Risk")
    IN  IF Len(high) > 0 THEN Len(high) ELSE Min({Len(medium), MediumHead})

\* risk_products_count * 2000 if risk_products_count > 0 else 10000.
scenario_3_automation_benefit(reorder) ==
    IF risk_products_count(reorder) > 0
    THEN risk_products_count(reorder) * AutomationBenefit
    ELSE DefaultBenefit

\* The one row of executive_summary.csv.
executive_summary(reorder) ==
    <<[Scenario_3_Benefit |-> scenario_3_automation_benefit(reorder)]>>

\* The rows of action_items: stockout prevention for the 5 riskiest products
\* (high risk, or medium risk when none is high), one quality alert per
\* reported anomaly (at most 3), a review of the first 3 'Review Required'
\* suppliers, and the top 3 products of positive potential savings.
action_items(reorder, anomalies, ranking) ==
    LET high == SelectRows(reorder, LAMBDA r : r.risk_category = "High Risk")
        medium == SelectRows(reorder, LAMBDA r : r.risk_category = "Medium Risk")
        risk_products == IF Len(high) > 0 THEN high ELSE medium
        top_risk == NLargest(5, risk_products,
                            MapSeq(risk_products, LAMBDA r : r.stockout_risk_score.v))
        review == SelectRows(ranking, LAMBDA r : r.recommendation = "Review Required")
        high_cost == NLargest(3, reorder, MapSeq(reorder, LAMBDA r : r.potential_savings))
    IN  MapSeq(top_risk,
               LAMBDA r : [priority |-> IF r.risk_category = "High Risk"
                                        THEN "CRITICAL" ELSE "HIGH",
                           category |-> "Stockout Prevention",
                           product_id |-> r.product_id])
        \o MapSeq(SubSeq(anomalies, 1, IF Len(anomalies) < 3 THEN Len(anomalies) ELSE 3),
                  LAMBDA a : [priority |-> "HIGH", category |-> "Quality Alert",
                              product_id |-> a.product_id])
        \o MapSeq(SubSeq(review, 1, IF Len(review) < 3 THEN Len(review) ELSE 3),
                  LAMBDA r : [priority |-> "MEDIUM", category |-> "Supplier Review",
                              product_id |-> r.supplier_id])
        \o MapSeq(SelectRows(high_cost, LAMBDA r : r.potential_savings > 0),
                  LAMBDA r : [priority |-> "MEDIUM", category |-> "Cost Optimization",
                              product_id |-> r.product_id])

-----------------------------------------------------------------------------
(* 05_dashboard_outputs.py *)

CriticalDays == 7      \* days_of_stock < 7: 'Critical'

WarningDays == 14      \* days_of_stock < 14: 'Warning'

\* A status whose thresholds belong to the more severe side.
status_inclusive(days) ==
    IF QLeq(days.v, Q(CriticalDays, 1)) THEN "Critical"
    ELSE IF QLeq(days.v, Q(WarningDays, 1)) THEN "Warning"
    ELSE "Normal"

\* 'Critical' if days_of_stock < 7 else ('Warning' if days_of_stock < 14 else
\* 'Normal').
status(days) ==
    IF ~QLeq(Q(CriticalDays, 1), days.v) THEN "Critical"
    ELSE IF ~QLeq(Q(WarningDays, 1), days.v) THEN "Warning"
    ELSE "Normal"

\* risk_dashboard with its status column, before the sort by score.
RiskStatus(risk_scores) ==
    MapSeq(risk_scores,
           LAMBDA r : [product_id |-> r.product_id,
                       avg_demand |-> r.avg_demand,
                       current_stock |-> r.current_stock,
                       days_of_stock |-> r.days_of_stock,
                       stockout_risk_score |-> r.stockout_risk_score,
                       risk_category |-> r.risk_category,
                       status |-> status(r.days_of_stock)])

RiskDashboardChoices(risk_scores) ==
    LET rows == RiskStatus(risk_scores)
    IN  SortChoices(rows, MapSeq(rows, LAMBDA r : r.stockout_risk_score))

\* forecasts.merge(products, on='product_id'): the forecast rows of the
\* products of the current products table.
forecast_dashboard(forecasts, products) ==
    SelectRows(forecasts, LAMBDA f : ProductRows(products, f.product_id) # <<>>)

\* forecast_summary: one row per forecast product, in key order.
forecast_summary(dashboard) ==
    MapSeq(SortedKeys({f.product_id : f \in Range(dashboard)}),
           LAMBDA k :
               [product_id |-> k,
                total_30day_forecast |->
                    SumSeq(MapSeq(SelectRows(dashboard, LAMBDA f : f.product_id = k),
                                  LAMBDA f : f.forecasted_demand))])

-----------------------------------------------------------------------------
(* The files *)

SalesFile == "data/processed/sales_transformed.csv"
InventoryFile == "data/processed/inventory_transformed.csv"
ProductMetricsFile == "data/processed/product_metrics.csv"
SupplierMetricsFile == "data/processed/supplier_metrics.csv"
DimProductsFile == "data/processed/dim_products.csv"
DimSuppliersFile == "data/processed/dim_suppliers.csv"
WarehouseMetricsFile == "data/processed/warehouse_metrics.csv"
DimWarehousesFile == "data/processed/dim_warehouses.csv"
ForecastFile == "data/analytics/demand_forecasts_30days.csv"
AnomaliesFile == "data/analytics/inventory_anomalies.csv"
RiskFile == "data/analytics/stockout_risk_scores.csv"
InventoryAnomalyFile == "data/analytics/inventory_with_anomalies.csv"
ReorderFile == "data/recommendations/optimal_reorder_points.csv"
\* The supplier ranking saved over the supplier metrics it was made from.
RankingFileInPlace == "data/processed/supplier_metrics.csv"

RankingFile == "data/recommendations/supplier_rankings.csv"
ActionsFile == "data/recommendations/priority_action_items.csv"
SummaryFile == "data/recommendations/executive_summary.csv"
RiskAlertsFile == "data/dashboards/risk_alerts.csv"
DashActionsFile == "data/dashboards/action_items.csv"
DashForecastFile == "data/dashboards/demand_forecasts.csv"
DashForecastSummaryFile == "data/dashboards/forecast_summary.csv"
DashSupplierFile == "data/dashboards/supplier_performance.csv"
DashWarehouseFile == "data/dashboards/warehouse_performance.csv"

ProcessedFiles ==
    {SalesFile, InventoryFile, ProductMetricsFile, SupplierMetricsFile,
     DimProductsFile, DimSuppliersFile, WarehouseMetricsFile, DimWarehousesFile}

AnalyticsFiles == {ForecastFile, AnomaliesFile, RiskFile, InventoryAnomalyFile}

RecommendationFiles == {ReorderFile, RankingFile, ActionsFile, SummaryFile}

DashboardFiles ==
    {RiskAlertsFile, DashActionsFile, DashForecastFile, DashForecastSummaryFile,
     DashSupplierFile, DashWarehouseFile}

Files == ProcessedFiles \cup AnalyticsFiles \cup RecommendationFiles \cup DashboardFiles

\* The files that each script reads (pd.read_csv) and the files it writes
\* (to_csv), by the pc value at which it runs; stage 2 reads the raw tables.
StageInputs ==
    [s2 |-> {},
     s3 |-> {SalesFile, InventoryFile, ProductMetricsFile, DimProductsFile},
     s4 |-> {DimProductsFile, ProductMetricsFile, SupplierMetricsFile, RiskFile,
             AnomaliesFile},
     s5 |-> {DimProductsFile, DimSuppliersFile, DimWarehousesFile, SalesFile,
             InventoryFile, ProductMetricsFile, WarehouseMetricsFile,
             SupplierMetricsFile, ForecastFile, RiskFile, AnomaliesFile,
             ReorderFile, RankingFile, ActionsFile}]

StageOutputs ==
    [s2 |-> ProcessedFiles, s3 |-> AnalyticsFiles, s4 |-> RecommendationFiles,
     s5 |-> DashboardFiles]

StageNumber == [s2 |-> 2, s3 |-> 3, s4 |-> 4, s5 |-> 5]

\* A file written by pipeline run n, and a file that does not exist.
File(n, rows) == [exists |-> TRUE, run |-> n, rows |-> rows]

Absent == [exists |-> FALSE, run |-> 0, rows |-> <<>>]

\* DataFrame.to_csv of each (file, rows) pair of the function writes.
Write(d, n, writes) ==
    [f \in Files |-> IF f \in DOMAIN writes THEN File(n, writes[f]) ELSE d[f]]

-----------------------------------------------------------------------------
(* The four scripts as actions *)

LowStockLevel == 100   \* low_stock_alert = current_stock < 100

\* inventory with its alert flag, as saved to inventory_transformed.csv (the
\* temperature column and its alert are not modelled).
InventoryTransformed(r) ==
    MapSeq(r.inventory,
           LAMBDA i : [date |-> i.date,
                       product_id |-> i.product_id,
                       current_stock |-> i.current_stock,
                       low_stock_alert |-> IF i.current_stock < LowStockLevel
                                           THEN 1 ELSE 0])

\* The tables of 02_transform_data.py, each under the file it is saved to.
Stage2Writes(r) ==
    LET sales == SalesTransformed(r)
    IN  (SalesFile :> sales)
        @@ (InventoryFile :> InventoryTransformed(r))
        @@ (ProductMetricsFile :> ProductMetrics(sales, r.products))
        @@ (WarehouseMetricsFile :> WarehouseMetrics(sales, r.warehouses))
        @@ (SupplierMetricsFile :> SupplierMetrics(r))
        @@ (DimProductsFile :> r.products)
        @@ (DimSuppliersFile :> r.suppliers)
        @@ (DimWarehousesFile :> r.warehouses)

\* A stage 2 that saves the sales table as soon as it has enriched it: when
\* the script stops later on, over the lead time of the products, the file is
\* there.
Stage2SavesAsItGoes ==
    /\ pc = "s2"
    /\ IF Stage2Fails(raw)
       THEN /\ pc' = "failed"
            /\ disk' = IF \/ \E c \in Stage2Uses.sales : Lacks(raw.sales, c)
                          \/ \E c \in {"product_id", "unit_price", "unit_cost"} :
                                 Lacks(raw.products, c)
                       THEN disk
                       ELSE Write(disk, run, SalesFile :> SalesTransformed(raw))
       ELSE /\ disk' = Write(disk, run, Stage2Writes(raw))
            /\ pc' = "s3"
    /\ UNCHANGED <<raw, run>>

\* 02_transform_data.py: every table is computed, then every file written;
\* a column that is not there stops the script before that.
Stage2 ==
    /\ pc = "s2"
    /\ IF Stage2Fails(raw)
       THEN pc' = "failed" /\ UNCHANGED disk
       ELSE /\ disk' = Write(disk, run, Stage2Writes(raw))
            /\ pc' = "s3"
    /\ UNCHANGED <<raw, run>>

\* The script stops before it writes: IsolationForest.fit and
\* len(anomalies)/len(inventory) fail on an empty inventory table, and
\* len(high_risk)/len(risk_features) on an empty risk table.
Stage3Fails(inventory, product_metrics, products) ==
    \/ inventory = <<>>
    \/ \A i \in 1..Len(product_metrics) :
          ProductRows(products, product_metrics[i].product_id) = <<>>

\* 03_predictive_analytics.py: the forecast file is written only when there
\* is a forecast row; the other files always.
Stage3 ==
    /\ pc = "s3"
    /\ LET sales == disk[SalesFile].rows
           inventory == disk[InventoryFile].rows
           product_metrics == disk[ProductMetricsFile].rows
           products == disk[DimProductsFile].rows
           forecasts == forecast_df(sales, product_metrics)
       IN  IF Stage3Fails(inventory, product_metrics, products)
           THEN pc' = "failed" /\ UNCHANGED disk
           ELSE \E latest_inventory \in LatestInventoryChoices(inventory),
                   anomalies \in AnomalyChoices(inventory) :
                    /\ disk' = Write(disk, run,
                          (IF Len(forecasts) > 0
                           THEN ForecastFile :> forecasts ELSE <<>>)
                          @@ (AnomaliesFile :> anomalies)
                          @@ (RiskFile :>
                                risk_features(product_metrics, latest_inventory, products))
                          @@ (InventoryAnomalyFile :> inventory))
                    /\ pc' = "s4"
    /\ UNCHANGED <<raw, run>>

\* 04_prescriptive_analytics.py: an .astype(int) of a non-finite value stops
\* the script, and so does actions_df['priority'] when no action item was
\* generated (the frame then has no column); the files are written last.
Stage4 ==
    /\ pc = "s4"
    /\ LET products == disk[DimProductsFile].rows
           risk_scores == disk[RiskFile].rows
           anomalies == disk[AnomaliesFile].rows
       IN  IF ReorderFails(risk_scores, products)
           THEN pc' = "failed" /\ UNCHANGED disk
           ELSE \E ranking \in SupplierRankingChoices(disk[SupplierMetricsFile].rows) :
                    LET reorder == reorder_optimization(risk_scores, products)
                        actions == action_items(reorder, anomalies, ranking)
                    IN  IF actions = <<>>
                        THEN pc' = "failed" /\ UNCHANGED disk
                        ELSE /\ disk' = Write(disk, run,
                                              (ReorderFile :> reorder)
                                              @@ (RankingFile :> ranking)
                                              @@ (ActionsFile :> actions)
                                              @@ (SummaryFile :>
                                                    executive_summary(reorder)))
                             /\ pc' = "s5"
    /\ UNCHANGED <<raw, run>>

\* (total_fulfilled / capacity * 100).round(1), in tenths.
capacity_utilization(total_fulfilled, capacity) ==
    IF capacity = 0 THEN (IF total_fulfilled = 0 THEN NaN ELSE Inf)
    ELSE Num(RoundDiv(1000 * total_fulfilled, capacity))

\* warehouse_dashboard, sorted by total_revenue, the largest first.
WarehouseDashboardChoices(warehouse_metrics) ==
    LET rows == MapSeq(warehouse_metrics,
                       LAMBDA w : [warehouse_id |-> w.warehouse_id,
                                   total_fulfilled |-> w.total_fulfilled,
                                   total_revenue |-> w.total_revenue,
                                   capacity |-> w.capacity,
                                   capacity_utilization |->
                                       capacity_utilization(w.total_fulfilled,
                                                            w.capacity)])
    IN  SortChoices(rows, MapSeq(rows, LAMBDA w : Num(w.total_revenue)))

\* try: forecasts = pd.read_csv(...) except: forecasts = pd.DataFrame(): the
\* forecast file if there is one, whichever run wrote it, or no row.
read_forecasts(d) ==
    IF d[ForecastFile].exists THEN d[ForecastFile].rows ELSE <<>>

\* The dashboard files that the script may write, the forecast dashboards
\* only when a forecast row remains.
Stage5Disks(d, n, forecasts) ==
    LET dashboard == forecast_dashboard(forecasts, d[DimProductsFile].rows)
    IN  {Write(d, n,
               (RiskAlertsFile :> risk_dashboard)
               @@ (DashActionsFile :> d[ActionsFile].rows)
               @@ (DashSupplierFile :> d[RankingFile].rows)
               @@ (DashWarehouseFile :> warehouse_dashboard)
               @@ (IF Len(dashboard) > 0
                   THEN (DashForecastFile :> dashboard)
                        @@ (DashForecastSummaryFile :> forecast_summary(dashboard))
                   ELSE <<>>)) :
            risk_dashboard \in RiskDashboardChoices(d[RiskFile].rows),
            warehouse_dashboard \in
                WarehouseDashboardChoices(d[WarehouseMetricsFile].rows)}

\* A stage 5 that stops as well when there is no forecast file to read.
Stage5FailsWithoutForecasts(d) ==
    Lacks(d[WarehouseMetricsFile].rows, "capacity") \/ ~d[ForecastFile].exists

\* The script stops before it writes: warehouse_metrics['capacity'] is a
\* KeyError when the column is not there.
Stage5Fails(d) == Lacks(d[WarehouseMetricsFile].rows, "capacity")

\* 05_dashboard_outputs.py: every table is computed, then every file written.
Stage5 ==
    /\ pc = "s5"
    /\ IF Stage5Fails(disk)
       THEN pc' = "failed" /\ UNCHANGED disk
       ELSE /\ disk' \in Stage5Disks(disk, run, read_forecasts(disk))
            /\ pc' = "done"
    /\ UNCHANGED <<raw, run>>

\* app.py load_data: the dashboard tables, or nothing when one of the files it
\* reads is missing; the forecast dashboards are not among them.
load_data(d) ==
    IF \A f \in {DashSupplierFile, DashWarehouseFile, RiskAlertsFile,
                  DashActionsFile} : d[f].exists
    THEN [loaded |-> TRUE,
          suppliers |-> d[DashSupplierFile].rows,
          warehouses |-> d[DashWarehouseFile].rows,
          risks |-> d[RiskAlertsFile].rows,
          actions |-> d[DashActionsFile].rows]
    ELSE [loaded |-> FALSE]

NextOnce == Stage2 \/ Stage3 \/ Stage4 \/ Stage5

-----------------------------------------------------------------------------
(* Raw tables *)

Product(id, cost, price, lead) ==
    [product_id |-> id, unit_cost |-> cost, unit_price |-> price,
     lead_time_days |-> lead]

Sale(tid, date, pid, ordered, fulfilled) ==
    [transaction_id |-> tid, date |-> date, product_id |-> pid,
     warehouse_id |-> 1,
     quantity_ordered |-> ordered, quantity_fulfilled |-> fulfilled]

Snapshot(date, pid, stock) ==
    [date |-> date, product_id |-> pid, current_stock |-> stock]

Supplier(id, reliability) == [supplier_id |-> id, reliability_score |-> reliability]

Order(oid, sid, pid, days) ==
    [order_id |-> oid, supplier_id |-> sid, product_id |-> pid,
     delivery_days_actual |-> days]

Warehouse(id, capacity) == [warehouse_id |-> id, capacity |-> capacity]

\* Every modelled sale is of warehouse 1.
BaseWarehouses == <<Warehouse(1, 5000)>>

Tables(products, sales, inventory, suppliers, orders) ==
    [products |-> products, sales |-> sales, inventory |-> inventory,
     suppliers |-> suppliers, supply_orders |-> orders,
     warehouses |-> BaseWarehouses]

BaseProducts == <<Product(1, 2000, 3000, 7), Product(2, 1000, 1500, 14)>>

BaseSuppliers == <<Supplier(1, 90), Supplier(2, 80)>>

BaseOrders == <<Order(1, 1, 1, 6), Order(2, 2, 1, 9), Order(3, 2, 2, 12)>>

InitWith(inputs) ==
    /\ raw \in inputs
    /\ disk = [f \in Files |-> Absent]
    /\ pc = "s2"
    /\ run = 1

-----------------------------------------------------------------------------
(* The pipeline run again and again over the same data directory *)

MaxRuns == 2

\* The sales of product 1: two transactions, the second one a stockout, a
\* long history (MinHistory + 1 days) or a short one.
LongSales == <<Sale(1, 1, 1, 2, 2), Sale(2, 1 + MinHistory, 1, 4, 2)>>

ShortSales == <<Sale(1, 1, 1, 2, 2), Sale(2, 5, 1, 4, 2)>>

RawPipeline ==
    {Tables(BaseProducts, s1 \o s2, i1 \o i2, BaseSuppliers, BaseOrders) :
        s1 \in {LongSales, ShortSales},
        s2 \in {<<>>, <<Sale(3, 3, 2, 1, 1)>>,
                <<Sale(3, 3, 2, 1, 1), Sale(4, 4, 2, 3, 3)>>},
        i1 \in {<<>>, <<Snapshot(1, 1, 400)>>},
        i2 \in {<<>>, <<Snapshot(1, 2, 20)>>}}

\* The next run: stage 2 runs again on the raw tables then in data/raw.
NewRun ==
    /\ pc \in {"done", "failed"}
    /\ run < MaxRuns
    /\ raw' \in RawPipeline
    /\ pc' = "s2"
    /\ run' = run + 1
    /\ UNCHANGED disk

Init == InitWith(RawPipeline)

Next == NextOnce \/ NewRun

Spec == Init /\ [][Next]_vars

-----------------------------------------------------------------------------
(* One run of the pipeline over the datasets of a family *)

\* Product 2 as every family has it: two complete sales and one snapshot.
P2Sales == <<Sale(3, 3, 2, 1, 1), Sale(4, 4, 2, 3, 3)>>

P2Stock == <<Snapshot(1, 2, 20)>>

\* Risk scoring: product 1 sells twice, 0..RiskMaxQty units ordered and all
\* or half of them fulfilled; its latest stock is none, 50 or 400 units; the
\* lead times of the two products are 7 and 14 days, or 1 and 500 days.
RiskMaxQty == 2

Fills == {t \in (0..RiskMaxQty) \X (0..RiskMaxQty) : t[2] \in {t[1], t[1] \div 2}}

RawRisk ==
    {Tables(<<Product(1, 2000, 3000, lead[1]), Product(2, 1000, 1500, lead[2])>>,
            <<Sale(1, 1, 1, t1[1], t1[2]), Sale(2, 2, 1, t2[1], t2[2])>> \o P2Sales,
            i1 \o P2Stock, BaseSuppliers, BaseOrders) :
        t1 \in Fills, t2 \in Fills,
        i1 \in {<<>>, <<Snapshot(1, 1, 50)>>, <<Snapshot(1, 1, 400)>>},
        lead \in {<<7, 14>>, <<1, 500>>}}

SpecRisk == InitWith(RawRisk) /\ [][NextOnce]_vars

\* Supplier ranking: three suppliers of reliability 0.80 or 0.90, each with
\* one order of product 1 (lead time 7 days) delivered in 6 or 9 days.
RawRank ==
    {Tables(BaseProducts, ShortSales \o P2Sales,
            <<Snapshot(1, 1, 400)>> \o P2Stock,
            <<Supplier(1, r[1]), Supplier(2, r[2]), Supplier(3, r[3])>>,
            <<Order(1, 1, 1, d[1]), Order(2, 2, 1, d[2]), Order(3, 3, 1, d[3])>>) :
        r \in [1..3 -> {80, 90}], d \in [1..3 -> {6, 9}]}

SpecRank == InitWith(RawRank) /\ [][NextOnce]_vars

\* Forecasting: product 1 sells on day 1, on the last day of its history and
\* on the day before, 0..ForecastMaxQty units on each of the last two; the
\* history is MinHistory - 1 .. MinHistory + HistorySlack days long.  In
\* half of the datasets five more products with a long history earn more
\* than product 1.
ForecastMaxQty == 3

HistorySlack == 2

CrowdProducts ==
    [i \in 1..TopN |-> Product(i + 1, 1000, 1500 + 100 * i, 14)]

CrowdSales ==
    Concat([i \in 1..TopN |->
               <<Sale(10 + i, 1, i + 1, 50, 50),
                 Sale(20 + i, 1 + MinHistory + i, i + 1, 50 + i, 50)>>])

RawForecast ==
    {Tables(products, <<Sale(1, 1, 1, 1, 1), Sale(2, n - 1, 1, c, c),
                        Sale(5, n, 1, b, b)>> \o sales,
            <<Snapshot(1, 1, 400)>> \o P2Stock, BaseSuppliers, BaseOrders) :
        n \in (MinHistory - 1)..(MinHistory + HistorySlack),
        b \in 0..ForecastMaxQty, c \in 0..ForecastMaxQty,
        products \in {BaseProducts}, sales \in {P2Sales}}
    \cup
    {Tables(<<Product(1, 2000, 3000, 7)>> \o CrowdProducts,
            <<Sale(1, 1, 1, 1, 1), Sale(2, n - 1, 1, c, c),
              Sale(5, n, 1, 2, 2)>> \o CrowdSales,
            <<Snapshot(1, 1, 400)>> \o P2Stock, BaseSuppliers, BaseOrders) :
        n \in (MinHistory - 1)..(MinHistory + HistorySlack),
        c \in 0..ForecastMaxQty}

SpecForecast == InitWith(RawForecast) /\ [][NextOnce]_vars

\* Reorder optimization: product 1 sells three times, product 2 twice as
\* much on the same days; both have the same unit cost, 20.00 or 0; product
\* 1 has a lead time of 7 or 9 days and a latest stock of 50 .. 400 units.
DemandTriples == {<<5, 10, 15>>, <<10, 20, 30>>, <<10, 10, 10>>}

RawReorder ==
    {Tables(<<Product(1, cost, 3000, lead), Product(2, cost, 3000, 14)>>,
            <<Sale(1, 1, 1, q[1], q[1]), Sale(2, 2, 1, q[2], q[2]),
              Sale(5, 3, 1, q[3], q[3]),
              Sale(3, 1, 2, 2 * q[1], 2 * q[1]), Sale(4, 2, 2, 2 * q[2], 2 * q[2]),
              Sale(6, 3, 2, 2 * q[3], 2 * q[3])>>,
            <<Snapshot(1, 1, stock)>> \o P2Stock, BaseSuppliers, BaseOrders) :
        q \in DemandTriples, lead \in {7, 9}, cost \in {0, 2000},
        stock \in {50, 70, 140, 400}}

SpecReorder == InitWith(RawReorder) /\ [][NextOnce]_vars

-----------------------------------------------------------------------------
(* Raw tables that lack a column *)

\* The columns of the six raw tables, as 01_extract_data.py writes them, that
\* the model carries.
RequiredColumns ==
    [products |-> {"product_id", "unit_cost", "unit_price", "lead_time_days"},
     suppliers |-> {"supplier_id", "reliability_score"},
     warehouses |-> {"warehouse_id", "capacity"},
     sales |-> {"transaction_id", "date", "product_id", "warehouse_id",
                "quantity_ordered", "quantity_fulfilled"},
     inventory |-> {"date", "product_id", "current_stock"},
     supply_orders |-> {"order_id", "supplier_id", "product_id",
                        "delivery_days_actual"}]

\* The raw tables r, the table t without its column c.
DropColumn(r, t, c) ==
    [r EXCEPT ![t] = [i \in 1..Len(r[t]) |->
                         [f \in DOMAIN r[t][i] \ {c} |-> r[t][i][f]]]]

\* Complete raw tables, some of a product of unit cost 0, and the same with
\* no inventory row, or with one column left out of one table: a column that
\* stage 2 works on, or the capacity of the warehouses.
RawSchema ==
    LET complete == {r \in RawReorder : r.products[1].unit_cost > 0}
    IN  RawReorder
        \cup {[r EXCEPT !.inventory = <<>>] : r \in complete}
        \cup {DropColumn(r, "warehouses", "capacity") : r \in complete}
        \cup {DropColumn(r, "products", "lead_time_days") : r \in complete}
        \cup {DropColumn(r, "sales", "quantity_fulfilled") : r \in complete}

SpecSchema == InitWith(RawSchema) /\ [][NextOnce]_vars

-----------------------------------------------------------------------------
(* Two products of steady demand and of little risk *)

QuietStocks == {30, 45, 400}

\* Both products sell the same quantity on two days, in full, and hold a
\* month of stock or more: no stockout, no volatility.
RawQuiet ==
    {Tables(<<Product(1, 2000, 3000, 7), Product(2, 2000, 3000, 14)>>,
            <<Sale(1, 1, 1, q1, q1), Sale(2, 2, 1, q1, q1),
              Sale(3, 1, 2, q2, q2), Sale(4, 2, 2, q2, q2)>>,
            <<Snapshot(1, 1, s1), Snapshot(1, 2, s2)>>,
            BaseSuppliers, BaseOrders) :
        q1 \in 1..2, q2 \in 1..2, s1 \in QuietStocks, s2 \in QuietStocks}

SpecQuiet == InitWith(RawQuiet) /\ [][NextOnce]_vars

-----------------------------------------------------------------------------
(* Fact rows of ids that the dimension tables do not have *)

\* More sales: of product 3, which is not in the products table (one
\* transaction id given twice), or in warehouse 2, which is not in the
\* warehouses table, or both.
OrphanSales ==
    {<<>>,
     <<Sale(7, 2, 3, 2, 1), Sale(7, 3, 3, 1, 1)>>,
     <<[Sale(7, 1, 1, 2, 2) EXCEPT !.warehouse_id = 2]>>,
     <<[Sale(7, 2, 3, 2, 1) EXCEPT !.warehouse_id = 2], Sale(8, 3, 3, 1, 1)>>}

\* One more order: from supplier 3, who is not in the suppliers table, or of
\* product 3.
OrphanOrders == {<<>>, <<Order(4, 3, 1, 10)>>, <<Order(4, 1, 3, 10)>>}

RawOrphan ==
    {Tables(BaseProducts, s1 \o P2Sales \o s3,
            <<Snapshot(1, 1, 400)>> \o P2Stock \o i3,
            BaseSuppliers, BaseOrders \o o) :
        s1 \in {LongSales, ShortSales}, s3 \in OrphanSales,
        i3 \in {<<>>, <<Snapshot(1, 3, 10)>>}, o \in OrphanOrders}

SpecOrphan == InitWith(RawOrphan) /\ [][NextOnce]_vars

-----------------------------------------------------------------------------
(* Inventory snapshots: none, one, several dates, one date several times *)

\* The snapshots of product pid: none, one, a later one before an earlier
\* one, or two or three of which the latest two have the same date.
SnapshotLists(pid) ==
    {<<>>,
     <<Snapshot(1, pid, 50)>>,
     <<Snapshot(2, pid, 50), Snapshot(1, pid, 400)>>,
     <<Snapshot(1, pid, 50), Snapshot(1, pid, 400)>>,
     <<Snapshot(1, pid, 400), Snapshot(1, pid, 50)>>,
     <<Snapshot(1, pid, 50), Snapshot(2, pid, 400), Snapshot(2, pid, 30)>>}

RawStock ==
    {Tables(BaseProducts, s1 \o P2Sales, i1 \o i2, BaseSuppliers, BaseOrders) :
        s1 \in {ShortSales, <<Sale(1, 1, 1, 2, 2), Sale(2, 5, 1, 2, 2)>>},
        i1 \in SnapshotLists(1), i2 \in SnapshotLists(2) \ {<<>>}}

SpecStock == InitWith(RawStock) /\ [][NextOnce]_vars

-----------------------------------------------------------------------------
(* Lead times and delivery times of which the largest is 0 *)

RawDegenerate ==
    {Tables(<<Product(1, 2000, 3000, lead[1]), Product(2, 1000, 1500, lead[2])>>,
            s1 \o P2Sales, <<Snapshot(1, 1, stock)>> \o P2Stock, BaseSuppliers,
            <<Order(1, 1, 1, days[1]), Order(2, 2, 1, days[2]),
              Order(3, 2, 2, days[2])>>) :
        lead \in {<<0, 0>>, <<0, 14>>, <<7, 14>>},
        days \in {<<0, 0>>, <<0, 9>>, <<6, 9>>},
        s1 \in {ShortSales, <<Sale(1, 1, 1, 2, 2), Sale(2, 5, 1, 2, 2)>>},
        stock \in {50, 400}}

SpecDegenerate == InitWith(RawDegenerate) /\ [][NextOnce]_vars

-----------------------------------------------------------------------------
(* Properties: risk scoring (SpecRisk) *)

RiskRows == Range(disk[RiskFile].rows)

\* C1: every risk row whose score lies in [0, 1] has the category of its bin:
\* 'Low Risk' up to 0.35, 'Medium Risk' above 0.35 and up to 0.65, 'High
\* Risk' above 0.65; no score of [0, 1], the lowest included, is left without
\* a category.
C1_EveryScoreHasItsCategory ==
    \A r \in RiskRows :
        LET v == r.stockout_risk_score.v
        IN  IsNum(r.stockout_risk_score) /\ 0 <= v /\ v <= 1000
            => r.risk_category = IF v <= 350 THEN "Low Risk"
                                 ELSE IF v <= 650 THEN "Medium Risk"
                                 ELSE "High Risk"

\* C2: a product of average demand 0 gets demand_volatility 0 and
\* days_of_stock 0, whatever its stock.
C2_ZeroDemandGivesZeroTerms ==
    \A r \in RiskRows :
        r.avg_demand = 0
        => /\ r.demand_volatility = Num(Q(0, 1))
           /\ r.days_of_stock = Num(Q(0, 1))

-----------------------------------------------------------------------------
(* Properties: the pipeline run again (Spec) *)

\* C3: when a run has gone through its four stages, every derived file on
\* disk was written by that run; no forecast file of an earlier run is left.
C3_DerivedFilesAreOfThisRun ==
    pc = "done" => \A f \in Files : disk[f].exists => disk[f].run = run

\* The number of rows of the table in file f that are about product pid.
RowsOf(f, pid) ==
    Cardinality({i \in 1..Len(disk[f].rows) : disk[f].rows[i].product_id = pid})

\* C4: the risk score table and the reorder table of a run each have exactly
\* one row per product of the product dimension table, sold or not, stocked
\* or not.
C4_OneRowPerProduct ==
    \A f \in {RiskFile, ReorderFile} :
        disk[f].exists /\ disk[f].run = run
        => \A p \in Range(disk[DimProductsFile].rows) : RowsOf(f, p.product_id) = 1

-----------------------------------------------------------------------------
(* Properties: supplier ranking (SpecRank) *)

Ranking == disk[RankingFile].rows

\* C5: the ranks are 1..n, each given once, and a supplier of higher
\* performance_score has the smaller rank.
C5_RankFollowsScore ==
    /\ \A i, j \in 1..Len(Ranking) : Ranking[i].rank = Ranking[j].rank => i = j
    /\ {Ranking[i].rank : i \in 1..Len(Ranking)} = 1..Len(Ranking)
    /\ \A a, b \in Range(Ranking) :
          /\ IsNum(a.performance_score) /\ IsNum(b.performance_score)
          /\ a.performance_score.v > b.performance_score.v
          => a.rank < b.rank

\* A ranking in which a supplier that comes later in the supplier metrics
\* table has the higher score, and so the better rank.
C5_LaterSupplierRanksFirst ==
    /\ disk[RankingFile].exists
    /\ \E a, b \in Range(Ranking) :
          /\ a.supplier_id > b.supplier_id
          /\ a.performance_score.v > b.performance_score.v
          /\ a.rank = 1

\* The row number of a supplier in the supplier metrics table.
MetricsRow(sid) ==
    CHOOSE i \in 1..Len(disk[SupplierMetricsFile].rows) :
        disk[SupplierMetricsFile].rows[i].supplier_id = sid

\* C6: of two suppliers of equal performance_score, the one that comes
\* earlier in the supplier metrics table has the lower rank.
C6_TiesKeepInputOrder ==
    \A a, b \in Range(Ranking) :
        /\ a.performance_score = b.performance_score
        /\ MetricsRow(a.supplier_id) < MetricsRow(b.supplier_id)
        => a.rank < b.rank

-----------------------------------------------------------------------------
(* Properties: demand forecasting (SpecForecast) *)

Forecasts == disk[ForecastFile].rows

SaleDates(pid) == {s.date : s \in {t \in Range(disk[SalesFile].rows) : t.product_id = pid}}

\* The days from the first to the last transaction date of a product.
HistoryDays(pid) == Max(SaleDates(pid)) - Min(SaleDates(pid)) + 1

Forecasted(pid) == \E f \in Range(Forecasts) : f.product_id = pid

\* Stage 3 has run to its end.
Stage3Done == disk[RiskFile].exists

TopProducts == Range(top_products(disk[ProductMetricsFile].rows))

\* C7 as stated: a top-N product is forecast if and only if its history has
\* at least MinHistory days, a history of exactly MinHistory days included.
C7_ForecastFromMinHistory ==
    Stage3Done => \A p \in TopProducts : Forecasted(p) <=> HistoryDays(p) >= MinHistory

\* C7: a top-N product is forecast if and only if its history has more than
\* MinHistory days; a history of exactly MinHistory days or less is skipped,
\* and stage 3 does not stop over it.
C7_ForecastAboveMinHistory ==
    /\ pc = "failed" => Stage3Done
    /\ Stage3Done => \A p \in TopProducts : Forecasted(p) <=> HistoryDays(p) > MinHistory

\* Stage 3 has gone by a top-N product of exactly MinHistory days.
C7_ExactMinimumSkipped ==
    /\ pc = "s4"
    /\ \E p \in TopProducts : HistoryDays(p) = MinHistory /\ ~Forecasted(p)

\* C8: a forecasted product has exactly Horizon rows, and their dates are
\* the Horizon days that follow its last transaction date, each once.
C8_HorizonRowsOfConsecutiveDays ==
    \A p \in {f.product_id : f \in Range(Forecasts)} :
        LET rows == {i \in 1..Len(Forecasts) : Forecasts[i].product_id = p}
            last == Max(SaleDates(p))
        IN  /\ Cardinality(rows) = Horizon
            /\ {Forecasts[i].forecast_date : i \in rows} = (last + 1)..(last + Horizon)

\* Product 1 is forecast from a history that ends on day MinHistory + 1.
C8_ForecastAfterLastDay ==
    /\ Forecasted(1)
    /\ Max(SaleDates(1)) = MinHistory + 1

\* C9: in every forecast row, lower_bound <= forecasted_demand <= upper_bound.
C9_BoundsEncloseForecast ==
    \A f \in Range(Forecasts) :
        f.lower_bound <= f.forecasted_demand /\ f.forecasted_demand <= f.upper_bound

\* A forecast row whose three values differ.
C9_StrictBounds ==
    \E f \in Range(Forecasts) :
        f.lower_bound < f.forecasted_demand /\ f.forecasted_demand < f.upper_bound

\* The recursive average y[1] = x[1], y[t] = (1 - 2/8) y[t-1] + (2/8) x[t]
\* computed in fixed point with Precision digits, rounded down (lo) and up
\* (hi): the average lies between lo / Precision and hi / Precision.
Precision == 10 ^ 5

RECURSIVE EmaEnclosure(_, _, _)
EmaEnclosure(x, t, y) ==
    IF t > Len(x) THEN y
    ELSE LET lo == (6 * y.lo + 2 * x[t] * Precision) \div 8
             hi == (6 * y.hi + 2 * x[t] * Precision + 7) \div 8
         IN  IF lo <= hi THEN EmaEnclosure(x, t + 1, [lo |-> lo, hi |-> hi])
             ELSE [lo |-> lo, hi |-> hi]

\* The dense daily series of a product, from the sales table.
DailySeries(pid) ==
    [d \in 1..HistoryDays(pid) |->
        SumSeq(MapSeq(SelectRows(disk[SalesFile].rows,
                                 LAMBDA s : /\ s.product_id = pid
                                            /\ s.date = Min(SaleDates(pid)) + d - 1),
                      LAMBDA s : s.quantity_ordered))]

\* value (in tenths) is tenths/10 of the average, rounded to one decimal.
RoundedShare(value, tenths, y) ==
    /\ 2 * value * Precision >= 2 * tenths * y.lo - Precision
    /\ 2 * value * Precision <= 2 * tenths * y.hi + Precision

\* C10: the point estimate of a forecasted product is the last value of the
\* recursive average of its daily series, to one decimal; the bounds are
\* 0.8 and 1.2 times that value, to one decimal; all rows of the product
\* carry the same three values.
C10_FlatForecastOfLastAverage ==
    \A p \in {f.product_id : f \in Range(Forecasts)} :
        LET x == DailySeries(p)
            y == EmaEnclosure(x, 2, [lo |-> x[1] * Precision, hi |-> x[1] * Precision])
        IN  \A f \in {g \in Range(Forecasts) : g.product_id = p} :
                /\ RoundedShare(f.forecasted_demand, 10, y)
                /\ RoundedShare(f.lower_bound, 8, y)
                /\ RoundedShare(f.upper_bound, 12, y)
                /\ \A g \in Range(Forecasts) :
                      g.product_id = p
                      => /\ g.forecasted_demand = f.forecasted_demand
                         /\ g.lower_bound = f.lower_bound
                         /\ g.upper_bound = f.upper_bound

\* Product 1 is forecast at one unit a day or more.
C10_ForecastOfAUnitOrMore ==
    \E f \in Range(Forecasts) : f.product_id = 1 /\ f.forecasted_demand >= 10

-----------------------------------------------------------------------------
(* Properties: range of the risk score (SpecRisk) *)

InUnit(f) == IsNum(f) /\ QLeq(Q(0, 1), f.v) /\ QLeq(f.v, Q(1, 1))

\* C11: in every risk row the score lies in [0, 1], and so does each of its
\* four terms: the stockout rate, the volatility clipped at 1, 1 minus
\* days_of_stock / 30 clipped at 1, and the lead time over the largest one.
C11_ScoreInUnitInterval ==
    \A r \in RiskRows :
        LET max_lead == Max({x.lead_time_days : x \in RiskRows})
        IN  /\ IsNum(r.stockout_risk_score)
            /\ 0 <= r.stockout_risk_score.v /\ r.stockout_risk_score.v <= 1000
            /\ InUnit(r.historical_stockout_rate)
            /\ InUnit(FClipUpper(r.demand_volatility, Q(1, 1)))
            /\ InUnit(FAdd(Num(Q(1, 1)),
                           FScale(Q(-1, 1),
                                  FClipUpper(FScale(Q(1, 30), r.days_of_stock),
                                             Q(1, 1)))))
            /\ InUnit(FDiv(Q(r.lead_time_days, 1), Q(max_lead, 1)))

\* A risk row whose volatility (above 1) and days of stock (above 30) are
\* both clipped.
C11_BothClipsAct ==
    \E r \in RiskRows :
        /\ IsNum(r.demand_volatility) /\ ~QLeq(r.demand_volatility.v, Q(1, 1))
        /\ IsNum(r.days_of_stock) /\ ~QLeq(r.days_of_stock.v, Q(30, 1))

-----------------------------------------------------------------------------
(* Properties: reorder optimization (SpecReorder) *)

Reorder == disk[ReorderFile].rows

\* The products of the product table whose unit cost is 0 and which have a
\* row in the risk table that stage 4 reads.
ZeroCostProducts ==
    {p \in Range(disk[DimProductsFile].rows) :
        p.unit_cost = 0 /\ \E r \in RiskRows : r.product_id = p.product_id}

\* C12: a product of unit cost 0 (holding cost 0) does not stop stage 4: the
\* stage goes on and writes a reorder row for it, with a finite
\* optimal_order_quantity.
C12_ZeroHoldingCostIsGuarded ==
    /\ disk[RiskFile].exists /\ ZeroCostProducts # {} => pc # "failed"
    /\ pc \in {"s5", "done"}
       => \A p \in ZeroCostProducts : RowsOf(ReorderFile, p.product_id) = 1

-----------------------------------------------------------------------------
(* Properties: sales enrichment (SpecRisk) *)

\* C13: every enriched sales row has a defined fulfillment_rate, a row of
\* quantity_ordered = 0 included; for quantity_ordered >= 1 it is
\* quantity_fulfilled / quantity_ordered to 3 decimals.
C13_FulfillmentRateIsDefined ==
    \A s \in Range(disk[SalesFile].rows) :
        /\ IsNum(s.fulfillment_rate)
        /\ s.quantity_ordered >= 1
           => LET e == s.quantity_ordered * s.fulfillment_rate.v
                       - 1000 * s.quantity_fulfilled
              IN  2 * e <= s.quantity_ordered /\ -2 * e <= s.quantity_ordered

-----------------------------------------------------------------------------
(* Properties: safety stock and reorder point (SpecReorder) *)

\* 4 x^2 for x = 1.65 * (std / 100) * sqrt(lead), that is (33 std / 1000)^2
\* * lead: its integer part, and whether it is an integer.
FourSquare(std, lead) ==
    LET a == (33 * std) \div 1000
        b == (33 * std) % 1000
        rest == (2000 * a * b + b * b) * lead
    IN  [floor |-> a * a * lead + rest \div 1000000,
         exact |-> rest % 1000000 = 0]

\* n is x rounded to an integer, half to even, given 4 x^2 as f.
RoundsTo(n, f) ==
    LET lo == (2 * n - 1) * (2 * n - 1)
        hi == (2 * n + 1) * (2 * n + 1)
    IN  /\ n >= 0
        /\ n >= 1 => lo <= f.floor
        /\ f.floor < hi \/ (f.floor = hi /\ f.exact)
        /\ f.exact /\ (f.floor = hi \/ (n >= 1 /\ f.floor = lo)) => n % 2 = 0

\* C14: in every reorder row safety_stock is 1.65 * demand_std *
\* sqrt(lead_time_days) rounded to an integer; for demand_std = 10 and a lead
\* time of 9 days it is 50.
C14_SafetyStockRounded ==
    \A r \in Range(Reorder) :
        /\ RoundsTo(r.safety_stock, FourSquare(r.demand_std.v, r.lead_time_days))
        /\ r.demand_std.v = 1000 /\ r.lead_time_days = 9 => r.safety_stock = 50

\* A reorder row of demand_std 10 and lead time 9, with safety stock 50.
C14_HalfRoundsToFifty ==
    \E r \in Range(Reorder) :
        r.demand_std.v = 1000 /\ r.lead_time_days = 9 /\ r.safety_stock = 50

\* C15: in every reorder row optimal_reorder_point is avg_demand *
\* lead_time_days plus the rounded safety_stock, rounded to an integer; for
\* avg_demand = 10, demand_std = 5 and a lead time of 7 days the safety stock
\* is 22 and the reorder point 92.
C15_ReorderPointAddsSafetyStock ==
    \A r \in Range(Reorder) :
        LET twice == 2 * r.avg_demand * r.lead_time_days + 200 * r.safety_stock
            lo == 200 * r.optimal_reorder_point - 100
            hi == 200 * r.optimal_reorder_point + 100
        IN  /\ lo <= twice /\ twice <= hi
            /\ twice \in {lo, hi} => r.optimal_reorder_point % 2 = 0
            /\ r.avg_demand = 1000 /\ r.demand_std.v = 500 /\ r.lead_time_days = 7
                   => r.safety_stock = 22 /\ r.optimal_reorder_point = 92

\* A reorder row of avg_demand 10, demand_std 5 and lead time 7, with a
\* positive safety stock.
C15_TenFiveSeven ==
    \E r \in Range(Reorder) :
        /\ r.avg_demand = 1000 /\ r.demand_std.v = 500 /\ r.lead_time_days = 7
        /\ r.safety_stock > 0 /\ r.optimal_reorder_point = 92

-----------------------------------------------------------------------------
(* Properties: order quantity (SpecReorder) *)

\* Integers e1 and e2 are roundings of some x and sqrt(2) * x.
RootTwoApart(e1, e2) ==
    /\ (2 * e2 - 1) * (2 * e2 - 1) <= 2 * (2 * e1 + 1) * (2 * e1 + 1)
    /\ e1 >= 1 => 2 * (2 * e1 - 1) * (2 * e1 - 1) <= (2 * e2 + 1) * (2 * e2 + 1)

\* Daily demands, in hundredths, the order quantity is compared at.
DemandLevels == {1, 250, 999, 1000, 1001, 1500, 2000, 2001, 4000}

\* C16: a product of twice the demand of another of the same unit cost has
\* sqrt(2) times its order quantity, up to the rounding of both, and the order
\* quantity of a larger demand at the same unit cost is never smaller.
C16_OrderQuantityGrowsAsRoot ==
    \A r \in Range(Reorder) :
        /\ \A t \in Range(Reorder) :
               t.unit_cost = r.unit_cost =>
                   /\ t.avg_demand = 2 * r.avg_demand =>
                          RootTwoApart(r.optimal_order_quantity,
                                       t.optimal_order_quantity)
                   /\ t.avg_demand >= r.avg_demand =>
                          t.optimal_order_quantity >= r.optimal_order_quantity
        /\ RootTwoApart(r.optimal_order_quantity,
                        optimal_order_quantity(2 * r.avg_demand, r.unit_cost).v)
        /\ \A d \in DemandLevels :
               LET oq == optimal_order_quantity(d, r.unit_cost).v
               IN  /\ d <= r.avg_demand => oq <= r.optimal_order_quantity
                   /\ d >= r.avg_demand => oq >= r.optimal_order_quantity

\* Two reorder rows of the same unit cost, one of twice the demand of the
\* other and of a larger order quantity.
C16_DoubledDemand ==
    \E r, t \in Range(Reorder) :
        /\ t.unit_cost = r.unit_cost /\ t.avg_demand = 2 * r.avg_demand
        /\ r.avg_demand > 0
        /\ t.optimal_order_quantity > r.optimal_order_quantity

-----------------------------------------------------------------------------
(* Properties: risk dashboard (SpecReorder) *)

RiskAlerts == Range(disk[RiskAlertsFile].rows)

\* C17: a row of the risk dashboard is 'Critical' under 7 days of stock,
\* 'Warning' from 7 to under 14 days, 'Normal' from 14 days on; a stock of 50
\* at an average demand of 10 is 5 days of stock, 'Critical'.
C17_StatusByDaysOfStock ==
    \A r \in RiskAlerts :
        LET n == r.days_of_stock.v.n
            d == r.days_of_stock.v.d
        IN  /\ IsNum(r.days_of_stock) /\ d > 0
            /\ r.status = "Critical" <=> n < 7 * d
            /\ r.status = "Warning" <=> 7 * d <= n /\ n < 14 * d
            /\ r.status = "Normal" <=> 14 * d <= n
            /\ r.current_stock = 50 /\ r.avg_demand = 1000
                   => r.days_of_stock = Num(Q(5, 1)) /\ r.status = "Critical"

\* A risk dashboard with a row of exactly 7 days of stock, a 'Warning'.
C17_ThresholdDays ==
    \E r \in RiskAlerts : r.days_of_stock = Num(Q(7, 1)) /\ r.status = "Warning"

-----------------------------------------------------------------------------
(* Properties: potential savings (SpecReorder) *)

\* C18: in every reorder row potential_savings is not negative and is the
\* larger of 0 and current_carrying_cost - annual_carrying_cost, where
\* current_carrying_cost is current_stock * unit_cost * 0.25 to the cent.
C18_SavingsClippedAtZero ==
    \A r \in Range(Reorder) :
        LET diff == r.current_carrying_cost - r.annual_carrying_cost
            e == 4 * r.current_carrying_cost - r.current_stock * r.unit_cost
        IN  /\ r.potential_savings >= 0
            /\ r.potential_savings = Max({0, diff})
            /\ -2 <= e /\ e <= 2

\* A reorder table with a row of positive savings and a row whose current
\* carrying cost is below the annual one, of no savings.
C18_SavingsAndNone ==
    /\ \E r \in Range(Reorder) :
           r.potential_savings > 0 /\ r.current_stock > 0 /\ r.unit_cost > 0
    /\ \E r \in Range(Reorder) :
           r.current_carrying_cost < r.annual_carrying_cost /\ r.potential_savings = 0

-----------------------------------------------------------------------------
(* Properties: a run without forecasts (SpecForecast) *)

\* C19: when there is no forecast file, stage 5 runs to its end, writes
\* neither of the two forecast dashboards, and the tables it has written load
\* in the front end.
C19_AbsentForecastsTolerated ==
    [][pc = "s5" /\ ~disk[ForecastFile].exists
       => /\ pc' = "done"
          /\ \A f \in {DashForecastFile, DashForecastSummaryFile} :
                 disk'[f] = disk[f] /\ ~disk'[f].exists
          /\ disk'[RiskAlertsFile].exists
          /\ load_data(disk').loaded]_vars

\* Stage 5 has run without a forecast file, and the front end loads its
\* tables.
C19_DashboardsWithoutForecasts ==
    /\ pc = "done"
    /\ ~disk[ForecastFile].exists
    /\ ~disk[DashForecastFile].exists
    /\ load_data(disk).loaded /\ load_data(disk).risks # <<>>

-----------------------------------------------------------------------------
(* Properties: raw tables that lack a column (SpecSchema) *)

\* A raw table of this run lacks one of its required columns.
ColumnMissing ==
    \E t \in DOMAIN RequiredColumns : \E c \in RequiredColumns[t] : Lacks(raw[t], c)

\* C20: when a raw table lacks a required column, stage 2 stops before it
\* writes a file: the run never gets past stage 2, and no derived file is on
\* disk.
C20_MissingColumnStopsStage2 ==
    ColumnMissing => /\ pc \in {"s2", "failed"}
                     /\ \A f \in Files : ~disk[f].exists

-----------------------------------------------------------------------------
(* Properties: tables of no row (SpecQuiet) *)

\* Stage 3 has written its tables, stage 4 computes a finite reorder table
\* from them, and no action item comes out of it, whichever way the supplier
\* ranking is sorted.
NoActionItems ==
    /\ disk[RiskFile].exists
    /\ ~ReorderFails(disk[RiskFile].rows, disk[DimProductsFile].rows)
    /\ \A ranking \in SupplierRankingChoices(disk[SupplierMetricsFile].rows) :
           action_items(reorder_optimization(disk[RiskFile].rows,
                                             disk[DimProductsFile].rows),
                        disk[AnomaliesFile].rows, ranking) = <<>>

\* C21: when no action item is generated, stage 4 still runs to its end and
\* writes an action-item table of no row, which stage 5 then reads.
C21_EmptyActionTableIsWritten ==
    NoActionItems
    => /\ pc # "failed"
       /\ pc \in {"s5", "done"}
          => disk[ActionsFile].exists /\ disk[ActionsFile].rows = <<>>

-----------------------------------------------------------------------------
(* Properties: ids of the derived tables (SpecOrphan) *)

\* The values of column key in the table of file f.
KeysOf(f, key) == {r[key] : r \in Range(disk[f].rows)}

\* C22: the product, supplier and warehouse ids of every table derived by
\* stages 2 to 4 are ids of the dimension table written with them, also when
\* sales, snapshots or orders name ids that no dimension table has.
C22_DerivedIdsAreDimensionKeys ==
    /\ \A f \in {ProductMetricsFile, ForecastFile, RiskFile, ReorderFile} :
           KeysOf(f, "product_id") \subseteq KeysOf(DimProductsFile, "product_id")
    /\ \A f \in {SupplierMetricsFile, RankingFile} :
           KeysOf(f, "supplier_id") \subseteq KeysOf(DimSuppliersFile, "supplier_id")
    /\ KeysOf(WarehouseMetricsFile, "warehouse_id")
           \subseteq KeysOf(DimWarehousesFile, "warehouse_id")

\* Stage 4 has written its tables from sales of a product and of a warehouse,
\* and from an order of a supplier or product, that no dimension table has;
\* there are forecasts.
C22_OrphansThroughStage4 ==
    /\ disk[RankingFile].exists /\ disk[ReorderFile].rows # <<>>
    /\ disk[ForecastFile].rows # <<>>
    /\ \E t \in Range(disk[SalesFile].rows) :
           t.product_id \notin KeysOf(DimProductsFile, "product_id")
    /\ \E t \in Range(disk[SalesFile].rows) :
           t.warehouse_id \notin KeysOf(DimWarehousesFile, "warehouse_id")
    /\ \E o \in Range(raw.supply_orders) :
           \/ o.supplier_id \notin KeysOf(DimSuppliersFile, "supplier_id")
           \/ o.product_id \notin KeysOf(DimProductsFile, "product_id")

-----------------------------------------------------------------------------
(* Properties: sales of unknown products (SpecOrphan) *)

\* C23: stage 2 does not stop over a sale of a product that the products
\* table does not have; the enriched sales table has exactly one row for each
\* transaction id of the input, and in the row of such a sale unit_price,
\* unit_cost, revenue, cost and profit are missing, as they are in no other
\* row.
C23_UnknownProductKeepsItsRow ==
    /\ pc = "failed" => disk[SalesFile].exists
    /\ disk[SalesFile].exists =>
           LET rows == disk[SalesFile].rows
               known == {p.product_id : p \in Range(raw.products)}
           IN  /\ \A t \in {x.transaction_id : x \in Range(raw.sales)} :
                      Cardinality({i \in 1..Len(rows) : rows[i].transaction_id = t}) = 1
               /\ \A i \in 1..Len(rows) :
                      rows[i].transaction_id \in {x.transaction_id : x \in Range(raw.sales)}
               /\ \A x \in Range(rows) :
                      \A f \in {"unit_price", "unit_cost", "revenue", "cost", "profit"} :
                          IsNum(x[f]) <=> x.product_id \in known

\* The enriched sales table has a row of a product that the products table
\* does not have, and fewer rows than the input has sales.
C23_UnknownProductSold ==
    /\ disk[SalesFile].exists
    /\ \E x \in Range(disk[SalesFile].rows) :
           x.product_id \notin {p.product_id : p \in Range(raw.products)}
    /\ Len(disk[SalesFile].rows) < Len(raw.sales)

-----------------------------------------------------------------------------
(* Properties: the latest stock (SpecStock) *)

\* The snapshots of product pid in the inventory table that stage 3 reads,
\* as row numbers.
SnapshotsOf(pid) ==
    {i \in 1..Len(disk[InventoryFile].rows) :
        disk[InventoryFile].rows[i].product_id = pid}

\* Its snapshots of the latest date.
LatestOf(pid) ==
    {i \in SnapshotsOf(pid) :
        \A j \in SnapshotsOf(pid) :
            disk[InventoryFile].rows[j].date <= disk[InventoryFile].rows[i].date}

\* C24: the current_stock of a risk row is the stock of the snapshot of the
\* product that has the latest date, of the last one in the table when
\* several have that date, and 0 when the product has no snapshot.
C24_LatestSnapshotLastInInput ==
    \A r \in RiskRows :
        r.current_stock =
            IF SnapshotsOf(r.product_id) = {} THEN 0
            ELSE disk[InventoryFile].rows[Max(LatestOf(r.product_id))].current_stock

-----------------------------------------------------------------------------
(* Properties: the daily demand series (SpecOrphan) *)

\* The rows of the sales table of product pid and of day d.
SalesOn(pid, d) ==
    SelectRows(disk[SalesFile].rows, LAMBDA s : s.product_id = pid /\ s.date = d)

\* C25: the daily series of a product that stage 3 considers has one entry
\* for every day from its first to its last transaction date; the entry of a
\* day is the sum of quantity_ordered over the transactions of that day, 0
\* when it has none.
C25_DenseDailySeries ==
    Stage3Done =>
        \A p \in TopProducts :
            LET dd == daily_demand(disk[SalesFile].rows, p)
                first == Min(SaleDates(p))
            IN  /\ dd.first = first /\ dd.last = Max(SaleDates(p))
                /\ DOMAIN dd.quantity = 1..(Max(SaleDates(p)) - first + 1)
                /\ \A i \in DOMAIN dd.quantity :
                       LET on == SalesOn(p, first + i - 1)
                       IN  dd.quantity[i] =
                               IF on = <<>> THEN 0
                               ELSE SumSeq(MapSeq(on, LAMBDA s : s.quantity_ordered))

\* Product 1 is forecast from a series that has a day of two transactions
\* and days of none.
C25_TwoSalesOnOneDay ==
    /\ Forecasted(1)
    /\ \E d \in SaleDates(1) : Len(SalesOn(1, d)) = 2
    /\ \E d \in Min(SaleDates(1))..Max(SaleDates(1)) : SalesOn(1, d) = <<>>

-----------------------------------------------------------------------------
(* Properties: a largest value of 0 as denominator (SpecDegenerate) *)

\* C26: every risk row has a defined stockout_risk_score and every ranked
\* supplier a defined performance_score, also when the largest lead time of
\* the products, or the largest average delivery time of the suppliers, is 0.
C26_ZeroMaximumHasFallback ==
    /\ \A r \in RiskRows : IsNum(r.stockout_risk_score)
    /\ \A a \in Range(Ranking) : IsNum(a.performance_score)

-----------------------------------------------------------------------------
(* Properties: the automation scenario (SpecQuiet) *)

\* C27: the benefit of the automation scenario in the executive summary is
\* 2000 times the number of risk products counted from the reorder table
\* written with it, and 0 when that number is 0.
C27_BenefitPerRiskProduct ==
    disk[SummaryFile].exists
    => disk[SummaryFile].rows[1].Scenario_3_Benefit
           = 2000 * risk_products_count(disk[ReorderFile].rows)

-----------------------------------------------------------------------------
(* Properties: the flow of the files (Spec) *)

\* C28: every file that a stage reads is written by an earlier stage, and a
\* stage changes only files of its own output directory, none of which it or
\* an earlier stage reads.
C28_DataFlowsForward ==
    /\ \A s \in DOMAIN StageInputs :
           \A f \in StageInputs[s] :
               \E e \in DOMAIN StageOutputs :
                   StageNumber[e] < StageNumber[s] /\ f \in StageOutputs[e]
    /\ [][\A f \in Files :
              disk'[f] # disk[f]
              => /\ pc \in DOMAIN StageOutputs
                 /\ f \in StageOutputs[pc]
                 /\ \A s \in DOMAIN StageInputs :
                        StageNumber[s] <= StageNumber[pc] => f \notin StageInputs[s]]_vars

\* A second run has gone through the four stages and has written again the
\* files that the stages read.
C28_SecondRunDone ==
    /\ pc = "done" /\ run = 2
    /\ \A f \in StageInputs.s5 \ {ForecastFile} : disk[f].exists /\ disk[f].run = 2
    /\ disk[RiskAlertsFile].run = 2

-----------------------------------------------------------------------------
(* Properties: a stage that stops (SpecSchema) *)

\* C29: when stage 2, 3 or 4 stops on an error, no file has been created or
\* changed by it: a step of these stages that changes a file ends the stage
\* normally.
C29_FailedStageWritesNothing ==
    [][(pc \in {"s2", "s3", "s4"} /\ pc' = "failed") => (disk' = disk)]_vars

\* Stage 2 has stopped over the missing lead time of the products, after it
\* could enrich the sales, and there is no file.
C29_Stage2Stopped ==
    /\ pc = "failed"
    /\ Lacks(raw.products, "lead_time_days")
    /\ \A c \in Stage2Uses.sales : ~Lacks(raw.sales, c)
    /\ \A f \in Files : ~disk[f].exists

-----------------------------------------------------------------------------
(* Properties: a product sold once (Spec) *)

\* The risk rows of this run whose product has exactly one row in the sales
\* of this run.
SoldOnce ==
    IF disk[RiskFile].run = run /\ disk[SalesFile].run = run
    THEN {r \in RiskRows :
            Cardinality({i \in 1..Len(disk[SalesFile].rows) :
                           disk[SalesFile].rows[i].product_id = r.product_id}) = 1}
    ELSE {}

\* The risk scoring gives a product sold once a demand_volatility of 0.
C30_VolatilityOfSoldOnce ==
    \A r \in SoldOnce : r.demand_volatility = Num(Q(0, 1))

\* C30: a product sold exactly once goes through the whole pipeline: its
\* demand_volatility is 0, stage 4 does not stop over the conversion of its
\* figures to integers, and once stage 4 is over the product has a reorder row
\* of this run with an integer safety_stock and optimal_reorder_point.
C30_SoldOnceFlowsThrough ==
    \A r \in SoldOnce :
        /\ r.demand_volatility = Num(Q(0, 1))
        /\ ~(pc = "failed"
             /\ ReorderFails(disk[RiskFile].rows, disk[DimProductsFile].rows))
        /\ pc \in {"s5", "done"} =>
             /\ disk[ReorderFile].run = run
             /\ \E o \in Range(disk[ReorderFile].rows) :
                    /\ o.product_id = r.product_id
                    /\ o.safety_stock \in Int
                    /\ o.optimal_reorder_point \in Int

=============================================================================
